---- MODULE Spec2Model ----
(***************************************************************************)
(* Data-access layer of the stock prediction dashboard:                    *)
(*   RequestQueue      (utils/requestQueue.ts)  bounded FIFO task queue    *)
(*   PersistentStorage (utils/requestQueue.ts)  TTL cache on localStorage  *)
(*   fetchWithCache    (services/api.ts)        cache-aside orchestration  *)
(*   fetchStocks       (services/api.ts)        list fetch, nested queueing*)
(*                                                                         *)
(* JavaScript runs one event-loop task at a time: an action of this model  *)
(* is one such task together with the chain of promise reactions it        *)
(* triggers, in the order the code runs them.                              *)
(***************************************************************************)
EXTENDS Integers, Sequences, FiniteSets, TLC

(* ------------------------------ bounds -------------------------------- *)
MaxOps == 5            \* operations handed to apiQueue in one run of the application
MaxTasks == 4          \* add() calls in one run of a queue used on its own
MaxConcurrency == 3    \* largest capacity a RequestQueue is constructed with
MaxCalls == 2          \* fetchWithCache calls in one run
MaxEntities == 3       \* largest list the backend returns
MaxTicks == 2          \* clock advances in one run of the application
MaxStoreTicks == 2     \* clock advances in one run of the storage alone
MaxUserCalls == 1      \* calls of public fetch functions the user interface makes in one run
MaxList == 3           \* stocks of a list handed to the prefetch scheduler
MaxPrice == 3          \* largest price a response carries, in currency units
MaxListCalls == 3      \* fetchStocks calls the user interface makes while earlier ones run
MaxRecords == 2        \* entities in a list whose records are followed
MaxWarmCalls == 2      \* fetchStocks calls on a warmed cache
MaxRefreshCalls == 3   \* calls the user interface makes in a run that refreshes

(* ------------------------- program constants -------------------------- *)
ApiConcurrency == 3        \* new RequestQueue(3)
DefaultTTL == 86400000     \* 24 * 60 * 60 * 1000
DefaultHistoryDays == 30   \* fetchHistoricalData(code, days = 30)

OpIds == 1..MaxOps
TaskIds == 1..MaxTasks
CallIds == 1..MaxCalls

VARIABLES
  queue,        \* RequestQueue.queue: the pending items, oldest first
  activeCount,  \* RequestQueue.activeCount
  concurrency,  \* RequestQueue.concurrency
  opState,      \* per operation: "unused" | "pending" | "running" | "done" | "threw"
  handle,       \* per operation: state of the promise add() returned
  handleVal,    \* per operation: the value or error the handle settled with
  admitted,     \* history: the items processNext has taken, in the order it invoked them
  waited,       \* history: the operations that were still pending when add() returned
  ops,          \* per operation: the closure handed to add(): its kind and what it serves
  nextOp,       \* number of add() calls made so far + 1
  calls,        \* per fetchWithCache call: its locals, its promise, the return
                \* statement it left by (path) and whether its cache write went through
  nextCall,     \* number of fetchWithCache calls made so far + 1
  store,        \* localStorage under the prefix 'stock_app_cache_': key -> entry
  now,          \* Date.now()
  ticks,        \* clock advances so far
  last          \* the storage operation performed last and what it returned

vars == <<queue, activeCount, concurrency, opState, handle, handleVal,
          admitted, waited, ops, nextOp, calls, nextCall, store, now, ticks, last>>

queueVars == <<queue, activeCount, concurrency, opState, handle, handleVal,
               admitted, waited, ops, nextOp>>
appVars == <<calls, nextCall>>
storeVars == <<store, now, ticks, last>>

(* ------------------------------ values -------------------------------- *)
\* Every value (fetched data, cached data, error) is a sequence of atoms.
NoValue == <<>>
Outcomes == {"fulfilled", "rejected"}
\* What an operation can fail with: request rejected, non-2xx status,
\* body not parseable, entity absent from the list.
Failures == {<<"NetworkFailure">>, <<"ApiError">>, <<"ParseFailure">>, <<"NotFound">>}

(* ---------------------------- RequestQueue ---------------------------- *)
\* The queue object with the promises it created, as one record.
QueueState ==
  [queue |-> queue, activeCount |-> activeCount, opState |-> opState,
   handle |-> handle, handleVal |-> handleVal, admitted |-> admitted,
   waited |-> waited, threw |-> FALSE]

\* processNext(). `throws`: the task admitted by this call, if any, throws when
\* invoked instead of returning a promise; the exception leaves processNext
\* after activeCount++ and before the .finally is attached.
ProcessNext_LIFO(q, cap, throws) ==
  IF q.activeCount >= cap \/ Len(q.queue) = 0 THEN q
  ELSE LET item == q.queue[Len(q.queue)] IN
       [q EXCEPT !.queue = SubSeq(q.queue, 1, Len(q.queue) - 1),
                 !.activeCount = q.activeCount + 1,
                 !.opState[item] = IF throws THEN "threw" ELSE "running",
                 !.admitted = Append(q.admitted, item),
                 !.threw = throws]

ProcessNext_NoGuard(q, cap, throws) ==
  IF Len(q.queue) = 0 THEN q
  ELSE LET item == Head(q.queue) IN
       [q EXCEPT !.queue = Tail(q.queue),
                 !.activeCount = q.activeCount + 1,
                 !.opState[item] = IF throws THEN "threw" ELSE "running",
                 !.admitted = Append(q.admitted, item),
                 !.threw = throws]

ProcessNext_KeepsItem(q, cap, throws) ==
  IF q.activeCount >= cap \/ Len(q.queue) = 0 THEN q
  ELSE LET item == Head(q.queue) IN
       [q EXCEPT !.activeCount = q.activeCount + 1,
                 !.opState[item] = IF throws THEN "threw" ELSE "running",
                 !.admitted = Append(q.admitted, item),
                 !.threw = throws]

ProcessNext_TimesOut(q, cap, throws) ==
  IF Len(q.queue) = 0 THEN q
  ELSE LET item == Head(q.queue) IN
       [q EXCEPT !.queue = Tail(q.queue),
                 !.activeCount = IF q.activeCount >= cap THEN cap ELSE q.activeCount + 1,
                 !.opState[item] = IF throws THEN "threw" ELSE "running",
                 !.admitted = Append(q.admitted, item),
                 !.threw = throws]

ProcessNext(q, cap, throws) ==
  IF q.activeCount >= cap \/ Len(q.queue) = 0 THEN q
  ELSE LET item == Head(q.queue) IN
       [q EXCEPT !.queue = Tail(q.queue),
                 !.activeCount = q.activeCount + 1,
                 !.opState[item] = IF throws THEN "threw" ELSE "running",
                 !.admitted = Append(q.admitted, item),
                 !.threw = throws]

\* add(task): the executor of the new promise pushes the item and calls
\* processNext; an exception leaving the executor rejects the new promise.
QueueAdd_OnlyPushes(q, cap, t, throws) ==
  [q EXCEPT !.queue = Append(q.queue, t),
            !.opState[t] = "pending",
            !.handle[t] = "unsettled",
            !.waited = @ \cup {t},
            !.threw = FALSE]

QueueAdd(q, cap, t, throws) ==
  LET pushed == [q EXCEPT !.queue = Append(q.queue, t),
                          !.opState[t] = "pending",
                          !.handle[t] = "unsettled",
                          !.threw = FALSE]
      r == ProcessNext(pushed, cap, throws)
      s == [r EXCEPT !.waited = IF r.opState[t] = "pending" THEN @ \cup {t} ELSE @]
  IN IF s.threw
       THEN [s EXCEPT !.handle[t] = "rejected", !.handleVal[t] = <<"TaskThrew">>]
       ELSE s

\* The reactions on the promise task() returned: .then(item.resolve),
\* .catch(item.reject).
QueueSettle_AlwaysResolves(q, t, outcome, val) ==
  [q EXCEPT !.opState[t] = "done", !.handle[t] = "fulfilled", !.handleVal[t] = val]

QueueSettle(q, t, outcome, val) ==
  [q EXCEPT !.opState[t] = "done", !.handle[t] = outcome, !.handleVal[t] = val]

\* .finally(() => { this.activeCount--; this.processNext(); })
QueueFinally_NoNext(q, cap, throws) ==
  [q EXCEPT !.activeCount = q.activeCount - 1, !.threw = FALSE]

QueueFinally(q, cap, throws) ==
  ProcessNext([q EXCEPT !.activeCount = q.activeCount - 1, !.threw = FALSE], cap, throws)

\* Writes a queue record back to the variables.
SetQueue(q) ==
  /\ queue' = q.queue
  /\ activeCount' = q.activeCount
  /\ opState' = q.opState
  /\ handle' = q.handle
  /\ handleVal' = q.handleVal
  /\ admitted' = q.admitted
  /\ waited' = q.waited

\* get pendingCount()
PendingCount == Len(queue)

Pending(t) == opState[t] = "pending"
Running(t) == opState[t] = "running"
Settled(t) == handle[t] \in Outcomes

(* -------------------------- PersistentStorage ------------------------- *)
\* Cache keys: the list key of fetchStocks and one per-entity key.
Keys == {"stocks_list", "stock_detail_2330"}

\* Atoms of a value. A number that is NaN is written by JSON.stringify as null.
Atoms == {"a", "NaN"}
Values == {<<x>> : x \in Atoms}

\* JSON.parse(JSON.stringify(v)) on a value.
Json(v) == [i \in DOMAIN v |-> IF v[i] = "NaN" THEN "null" ELSE v[i]]

\* What localStorage holds under prefix + key: nothing, a string that does not
\* parse, or a serialised CacheItem.
Absent == [tag |-> "absent"]
Corrupt == [tag |-> "corrupt"]
CacheItem(v, t, e) == [tag |-> "item", value |-> v, timestamp |-> t, expiry |-> e]
EmptyStore == [k \in Keys |-> Absent]

\* What get() returns.
Null == [tag |-> "null"]
Found(v, x, t) == [tag |-> "found", value |-> v, isExpired |-> x, timestamp |-> t]

\* clearExpired(): removes the parseable entries with now > expiry.
ClearExpired(st, t) ==
  [k \in DOMAIN st |-> IF st[k].tag = "item" /\ t > st[k].expiry THEN Absent ELSE st[k]]

\* clearAll()
ClearAll(st) == [k \in DOMAIN st |-> Absent]

\* remove(key)
Remove(st, key) == [st EXCEPT ![key] = Absent]

\* set(key, value, ttl) at time t. writeOk: localStorage.setItem returned; when
\* it throws instead (quota), the catch block runs clearExpired().
StorageSet_ExpiryIsTtl(st, key, value, ttl, t, writeOk) ==
  LET item == CacheItem(Json(value), t, ttl)
  IN IF writeOk THEN [st EXCEPT ![key] = item] ELSE ClearExpired(st, t)

StorageSet_RetriesWrite(st, key, value, ttl, t, writeOk) ==
  LET item == CacheItem(Json(value), t, t + ttl)
  IN IF writeOk THEN [st EXCEPT ![key] = item]
     ELSE [ClearExpired(st, t) EXCEPT ![key] = item]

StorageSet(st, key, value, ttl, t, writeOk) ==
  LET item == CacheItem(Json(value), t, t + ttl)
  IN IF writeOk THEN [st EXCEPT ![key] = item] ELSE ClearExpired(st, t)

\* set(): whether the call returns normally. A failing write is caught; the
\* clearExpired() of the catch block catches what its own reads throw.
StorageSetReturns_Propagates(writeOk) == writeOk

StorageSetReturns(writeOk) == TRUE

\* set(key, value): ttl defaults to this.defaultTTL.
StorageSetDefault(st, key, value, t, writeOk) ==
  StorageSet(st, key, value, DefaultTTL, t, writeOk)

\* get(key) at time t: the value returned.
StorageGet_ExpiredAtExpiry(st, key, t) ==
  IF st[key].tag = "absent" THEN Null
  ELSE IF st[key].tag = "corrupt" THEN Null
  ELSE Found(st[key].value, t >= st[key].expiry, st[key].timestamp)

StorageGet(st, key, t) ==
  IF st[key].tag = "absent" THEN Null
  ELSE IF st[key].tag = "corrupt" THEN Null
  ELSE Found(st[key].value, t > st[key].expiry, st[key].timestamp)

\* get(key) at time t: what it leaves in localStorage (it only reads).
StorageAfterGet_DropsExpired(st, key, t) ==
  IF st[key].tag = "item" /\ t > st[key].expiry THEN [st EXCEPT ![key] = Absent] ELSE st

StorageAfterGet(st, key, t) == st

(* --------------------------- initial pieces --------------------------- *)
\* A task of no particular caller.
GenericOp == [kind |-> "generic", owner |-> 0, size |-> 0]

\* A queue as constructed: nothing pending, nothing running.
QueueIdle ==
  /\ queue = <<>>
  /\ activeCount = 0
  /\ opState = [t \in OpIds |-> "unused"]
  /\ handle = [t \in OpIds |-> "none"]
  /\ handleVal = [t \in OpIds |-> NoValue]
  /\ admitted = <<>>
  /\ waited = {}
  /\ ops = [t \in OpIds |-> GenericOp]
  /\ nextOp = 1

\* No fetchWithCache call made yet.
IdleCall ==
  [st |-> "idle", key |-> "", force |-> FALSE, cached |-> Null, op |-> 0,
   result |-> NoValue, path |-> "", wrote |-> FALSE]
AppIdle ==
  /\ calls = [c \in CallIds |-> IdleCall]
  /\ nextCall = 1

(* ----------------- a RequestQueue used on its own --------------------- *)
QInit ==
  /\ QueueIdle
  /\ concurrency \in 1..MaxConcurrency
  /\ AppIdle
  /\ store = EmptyStore
  /\ now = 0
  /\ ticks = 0
  /\ last = [op |-> "none"]

\* queue.add(task) by any caller.
QAdd(throws) ==
  /\ nextOp <= MaxTasks
  /\ SetQueue(QueueAdd(QueueState, concurrency, nextOp, throws))
  /\ nextOp' = nextOp + 1
  /\ UNCHANGED <<concurrency, ops, appVars, storeVars>>

\* The promise of a running task settles: the reactions of processNext.
QCompletion(t, outcome, val, throws) ==
  /\ Running(t)
  /\ SetQueue(QueueFinally(QueueSettle(QueueState, t, outcome, val), concurrency, throws))
  /\ UNCHANGED <<concurrency, ops, nextOp, appVars, store, now, ticks>>

\* What a task of no particular caller completes with.
TaskValue(outcome) == IF outcome = "fulfilled" THEN <<"result">> ELSE <<"error">>

QComplete(t, outcome, throws) ==
  /\ QCompletion(t, outcome, TaskValue(outcome), throws)
  /\ UNCHANGED last

QCompletes(t) == \E outcome \in Outcomes, throws \in BOOLEAN : QComplete(t, outcome, throws)

QNext ==
  \/ \E throws \in BOOLEAN : QAdd(throws)
  \/ \E t \in TaskIds : QCompletes(t)

QueueSpec == QInit /\ [][QNext]_vars

\* Every running operation eventually completes.
QueueLive == QueueSpec /\ \A t \in TaskIds : WF_vars(QCompletes(t))

\* The same queue observed from outside: `last` keeps which operation
\* completed last and how.
QCompleteObserved(t, outcome, throws) ==
  /\ QCompletion(t, outcome, TaskValue(outcome), throws)
  /\ last' = [op |-> "settle", task |-> t, outcome |-> outcome,
              value |-> TaskValue(outcome)]

HandleNext ==
  \/ \E throws \in BOOLEAN : QAdd(throws)
  \/ \E t \in TaskIds, outcome \in Outcomes, throws \in BOOLEAN :
        QCompleteObserved(t, outcome, throws)

HandleSpec == QInit /\ [][HandleNext]_vars

(* ---------------- a PersistentStorage used on its own ----------------- *)
\* ttl arguments a caller passes.
TTLs == {-1, 1, DefaultTTL}
\* By how much the clock advances between two storage calls.
TickSteps == {1, DefaultTTL}

SInit ==
  /\ QueueIdle
  /\ concurrency = ApiConcurrency
  /\ AppIdle
  /\ store \in [Keys -> {Absent, Corrupt}]
  /\ now = 0
  /\ ticks = 0
  /\ last = [op |-> "none"]

\* The keys a storage call has removed; `last` keeps them.
Removed(before, after) ==
  {k \in DOMAIN before : before[k].tag /= "absent" /\ after[k].tag = "absent"}

\* storage.set(k, v, ttl)
SSet(k, v, ttl, writeOk) ==
  /\ store' = StorageSet(store, k, v, ttl, now, writeOk)
  /\ last' = [op |-> "set", key |-> k, value |-> v, ttl |-> ttl, given |-> TRUE,
              ok |-> writeOk, at |-> now, removed |-> Removed(store, store')]
  /\ UNCHANGED <<now, ticks, queueVars, appVars>>

\* storage.set(k, v)
SSetDefault(k, v, writeOk) ==
  /\ store' = StorageSetDefault(store, k, v, now, writeOk)
  /\ last' = [op |-> "set", key |-> k, value |-> v, ttl |-> 0, given |-> FALSE,
              ok |-> writeOk, at |-> now, removed |-> Removed(store, store')]
  /\ UNCHANGED <<now, ticks, queueVars, appVars>>

\* storage.get(k)
SGet(k) ==
  /\ store' = StorageAfterGet(store, k, now)
  /\ last' = [op |-> "get", key |-> k, result |-> StorageGet(store, k, now),
              at |-> now]
  /\ UNCHANGED <<now, ticks, queueVars, appVars>>

\* storage.remove(k)
SRemove(k) ==
  /\ store' = Remove(store, k)
  /\ last' = [op |-> "remove", key |-> k, at |-> now]
  /\ UNCHANGED <<now, ticks, queueVars, appVars>>

\* storage.clearAll()
SClearAll ==
  /\ store' = ClearAll(store)
  /\ last' = [op |-> "clearAll", at |-> now]
  /\ UNCHANGED <<now, ticks, queueVars, appVars>>

\* storage.clearExpired()
SClearExpired ==
  /\ store' = ClearExpired(store, now)
  /\ last' = [op |-> "clearExpired", at |-> now, removed |-> Removed(store, store')]
  /\ UNCHANGED <<now, ticks, queueVars, appVars>>

\* Time passes between two calls.
STick(d) ==
  /\ ticks < MaxStoreTicks
  /\ now' = now + d
  /\ ticks' = ticks + 1
  /\ last' = [op |-> "tick"]
  /\ UNCHANGED <<store, queueVars, appVars>>

SNext ==
  \/ \E k \in Keys, v \in Values, ttl \in TTLs, writeOk \in BOOLEAN : SSet(k, v, ttl, writeOk)
  \/ \E k \in Keys, v \in Values, writeOk \in BOOLEAN : SSetDefault(k, v, writeOk)
  \/ \E k \in Keys : SGet(k)
  \/ \E k \in Keys : SRemove(k)
  \/ SClearAll
  \/ SClearExpired
  \/ \E d \in TickSteps : STick(d)

StoreSpec == SInit /\ [][SNext]_vars

(* --------------------- fetchWithCache and fetchStocks ----------------- *)
ListKey == "stocks_list"
DetailKey == "stock_detail_2330"

\* What the per-entity composition of fetchStocks yields for one entity.
EntityRecord == <<"e">>

\* if (cached && !cached.isExpired && !forceRefresh)
IsFreshHit_IgnoresForce(cached, force) ==
  cached.tag = "found" /\ ~cached.isExpired

IsFreshHit(cached, force) ==
  cached.tag = "found" /\ ~cached.isExpired /\ ~force

\* The catch block of fetchWithCache: the call's record after its queued
\* operation rejected with `err`.
OnFetchError_Rethrows(call, err) ==
  [call EXCEPT !.st = "rejected", !.result = err, !.path = "FAILED_NO_FALLBACK"]

OnFetchError_Swallows(call, err) ==
  IF call.cached.tag = "found"
    THEN [call EXCEPT !.st = "resolved", !.result = call.cached.value,
                      !.path = "FAILED_WITH_STALE_FALLBACK"]
    ELSE [call EXCEPT !.st = "resolved", !.result = NoValue,
                      !.path = "FAILED_NO_FALLBACK"]

OnFetchError_StaysQueued(call, err) == call

OnFetchError(call, err) ==
  IF call.cached.tag = "found"
    THEN [call EXCEPT !.st = "resolved", !.result = call.cached.value,
                      !.path = "FAILED_WITH_STALE_FALLBACK"]
    ELSE [call EXCEPT !.st = "rejected", !.result = err,
                      !.path = "FAILED_NO_FALLBACK"]

\* The try block after the await: storage.set(key, data); return data.
OnFetchData(call, data) ==
  [call EXCEPT !.st = "resolved", !.result = data, !.path = "SUCCEEDED"]

\* storage.set(key, data) of the try block: the store it leaves.
StoreFetched_KeepsStale(st, call, data, t, writeOk) ==
  IF call.cached.tag = "found" THEN st
  ELSE StorageSetDefault(st, call.key, data, t, writeOk)

StoreFetched_FirstWriteWins(st, call, data, t, writeOk) ==
  IF st[call.key].tag = "item" /\ ~(t > st[call.key].expiry) THEN st
  ELSE StorageSetDefault(st, call.key, data, t, writeOk)

StoreFetched(st, call, data, t, writeOk) ==
  StorageSetDefault(st, call.key, data, t, writeOk)

\* fetchWithCache(key, fetcher, forceRefresh) up to its first await, as call
\* number nextCall; `kind` is the fetcher handed in.
FetchWithCache(key, force, kind) ==
  LET c == nextCall
      t == nextOp
      cached == StorageGet(store, key, now)
      call == [IdleCall EXCEPT !.key = key, !.force = force, !.cached = cached]
  IN /\ c <= MaxCalls
     /\ nextCall' = c + 1
     /\ IF IsFreshHit(cached, force)
          THEN /\ calls' = [calls EXCEPT ![c] =
                     [call EXCEPT !.st = "resolved", !.result = cached.value,
                                  !.path = "CACHE_FRESH_HIT"]]
               /\ UNCHANGED queueVars
          ELSE /\ t <= MaxOps
               /\ calls' = [calls EXCEPT ![c] = [call EXCEPT !.st = "queued", !.op = t]]
               /\ SetQueue(QueueAdd(QueueState, concurrency, t, FALSE))
               /\ ops' = [ops EXCEPT ![t] = [kind |-> kind, owner |-> c, size |-> -1]]
               /\ nextOp' = t + 1
               /\ UNCHANGED concurrency
     /\ UNCHANGED storeVars

\* A caller of fetchWithCache with a fetcher that makes one request chain
\* (fetchStockDetail and the like); forceRefresh is the third argument.
CallFetch(force) == FetchWithCache(DetailKey, force, "fetch")

\* fetchStocks(): fetchWithCache('stocks_list', fetchLogic).
CallFetchStocks == FetchWithCache(ListKey, FALSE, "list")

\* The queued operation t of a call fulfils with `data`: item.resolve, the
\* continuation of fetchWithCache, then the .finally of the queue.
\* storage.set stands inside the try: were it to throw, the catch block would
\* run as for a failed fetch.
Fulfil(q, t, data, writeOk) ==
  LET c == ops[t].owner
  IN /\ calls' = [calls EXCEPT ![c] =
                   IF StorageSetReturns(writeOk)
                     THEN [OnFetchData(calls[c], data) EXCEPT !.wrote = writeOk]
                     ELSE OnFetchError(calls[c], <<"StorageFailure">>)]
     /\ store' = StoreFetched(store, calls[c], data, now, writeOk)
     /\ SetQueue(QueueFinally(QueueSettle(q, t, "fulfilled", data), concurrency, FALSE))

\* The queued operation t of a call rejects with `err`.
Reject_DropsEntry(q, t, err) ==
  LET c == ops[t].owner
  IN /\ calls' = [calls EXCEPT ![c] = OnFetchError(calls[c], err)]
     /\ store' = Remove(store, calls[c].key)
     /\ SetQueue(QueueFinally(QueueSettle(q, t, "rejected", err), concurrency, FALSE))

Reject(q, t, err) ==
  LET c == ops[t].owner
  IN /\ calls' = [calls EXCEPT ![c] = OnFetchError(calls[c], err)]
     /\ store' = store
     /\ SetQueue(QueueFinally(QueueSettle(q, t, "rejected", err), concurrency, FALSE))

\* The fetcher of a "fetch" operation returns data.
FetchSucceeds(t, data, writeOk) ==
  /\ Running(t) /\ ops[t].kind = "fetch"
  /\ Fulfil(QueueState, t, data, writeOk)
  /\ UNCHANGED <<concurrency, ops, nextOp, nextCall, now, ticks, last>>

\* The fetcher of a "fetch" operation throws.
FetchFails(t, err) ==
  /\ Running(t) /\ ops[t].kind = "fetch"
  /\ Reject(QueueState, t, err)
  /\ UNCHANGED <<concurrency, ops, nextOp, nextCall, now, ticks, last>>

\* n add() calls in a row for the entities of list operation t, the first
\* being operation number `first`.
RECURSIVE AddEntities(_, _, _, _)
AddEntities(q, cap, first, n) ==
  IF n = 0 THEN q
  ELSE AddEntities(QueueAdd(q, cap, first, FALSE), cap, first + 1, n - 1)

\* fetchLogic of fetchStocks: the list request answers with n entities; one
\* operation per entity is added to the same queue and Promise.all awaits
\* them. With n = 0 Promise.all resolves at once and the operation completes.
ListResponds(t, n, writeOk) ==
  /\ Running(t) /\ ops[t].kind = "list" /\ ops[t].size = -1
  /\ nextOp + n - 1 <= MaxOps
  /\ ops' = [x \in OpIds |->
               IF x = t THEN [ops[t] EXCEPT !.size = n]
               ELSE IF x >= nextOp /\ x < nextOp + n
                      THEN [kind |-> "entity", owner |-> t, size |-> 0]
                      ELSE ops[x]]
  /\ nextOp' = nextOp + n
  /\ IF n = 0
       THEN Fulfil(QueueState, t, <<>>, writeOk)
       ELSE /\ SetQueue(AddEntities(QueueState, concurrency, nextOp, n))
            /\ UNCHANGED <<calls, store>>
  /\ UNCHANGED <<concurrency, nextCall, now, ticks, last>>

\* fetchLogic of fetchStocks: the list request fails (rejected, non-2xx, or a
\* body that is no JSON array).
ListFails(t, err) ==
  /\ Running(t) /\ ops[t].kind = "list" /\ ops[t].size = -1
  /\ Reject(QueueState, t, err)
  /\ UNCHANGED <<concurrency, ops, nextOp, nextCall, now, ticks, last>>

\* The entity operations of list operation p, in list order.
EntitiesOf(p) == {x \in OpIds : ops[x].kind = "entity" /\ ops[x].owner = p}
RECURSIVE ListValue(_, _, _)
ListValue(hv, from, n) ==
  IF n = 0 THEN <<>> ELSE hv[from] \o ListValue(hv, from + 1, n - 1)

\* The per-entity operation t completes with its record. When it is the last
\* of its list, Promise.all resolves, fetchLogic returns and the list
\* operation completes in the same chain of reactions.
EntityCompletes(t, writeOk) ==
  /\ Running(t) /\ ops[t].kind = "entity"
  /\ LET p == ops[t].owner
         q1 == QueueFinally(QueueSettle(QueueState, t, "fulfilled", EntityRecord),
                            concurrency, FALSE)
         sibs == EntitiesOf(p)
         first == CHOOSE x \in sibs : \A y \in sibs : x <= y
     IN IF \A x \in sibs : q1.opState[x] = "done"
          THEN Fulfil(q1, p, ListValue(q1.handleVal, first, ops[p].size), writeOk)
          ELSE /\ SetQueue(q1)
               /\ UNCHANGED <<calls, store>>
  /\ UNCHANGED <<concurrency, ops, nextOp, nextCall, now, ticks, last>>

\* A day passes between two event-loop tasks.
Tick ==
  /\ ticks < MaxTicks
  /\ now' = now + DefaultTTL
  /\ ticks' = ticks + 1
  /\ UNCHANGED <<store, last, queueVars, appVars>>

\* The page loads at StartTime; localStorage holds what an earlier session
\* left: per key nothing, or an entry stored at time 0, now past its expiry.
StartTime == DefaultTTL + 1
OldValue == <<"old">>
LeftOver == {Absent, CacheItem(OldValue, 0, DefaultTTL)}

Init ==
  /\ QueueIdle
  /\ concurrency = ApiConcurrency
  /\ AppIdle
  /\ store \in [Keys -> LeftOver]
  /\ now = StartTime
  /\ ticks = 0
  /\ last = [op |-> "none"]

\* fetchWithCache under every outcome of the fetcher, the cache write and the
\* clock.
Next ==
  \/ \E force \in BOOLEAN : CallFetch(force)
  \/ \E t \in OpIds, data \in Values, writeOk \in BOOLEAN : FetchSucceeds(t, data, writeOk)
  \/ \E t \in OpIds, err \in Failures : FetchFails(t, err)
  \/ Tick

Spec == Init /\ [][Next]_vars

\* fetchStocks and a per-entity fetch sharing apiQueue: the list operation
\* holds a slot while its per-entity operations go through the same queue.
StocksNext ==
  \/ CallFetchStocks
  \/ CallFetch(FALSE)
  \/ \E t \in OpIds, n \in 0..MaxEntities : ListResponds(t, n, TRUE)
  \/ \E t \in OpIds : ListFails(t, <<"NetworkFailure">>)
  \/ \E t \in OpIds : EntityCompletes(t, TRUE)
  \/ \E t \in OpIds : FetchSucceeds(t, <<"a">>, TRUE)
  \/ \E t \in OpIds : FetchFails(t, <<"NetworkFailure">>)

StocksSpec == Init /\ [][StocksNext]_vars

(* ------------------------- composite fetchers ------------------------- *)
\* How one sub-request of a composite fetcher ends: the response body has the
\* expected shape; the request is rejected (network); the status is not 2xx;
\* response.json() rejects (the body is no JSON); the body is a JSON string
\* whose content JSON.parse rejects.
SubOutcomes == {"ok", "network", "status", "parse", "parseInner"}
\* The sub-request got as far as reading the body.
HasBody(sub) == sub \notin {"network", "status"}
\* Reading the body throws.
BodyThrows(sub) == sub \in {"parse", "parseInner"}

\* The values a sub-request contributes, and the defaults of the code.
DefaultPrice == "0"
MockCurrentPrice == "10"
Composite(p1, p2, cur) ==
  [failed |-> FALSE, price1 |-> p1, price2 |-> p2, currentPrice |-> cur]
CompositeFailed == [failed |-> TRUE, error |-> <<"ParseFailure">>]

\* Per-entity composition of fetchStocks: each body is read in a try/catch of
\* its own.
EntityComposition(llm, neural, price) ==
  Composite(IF neural = "ok" THEN "neural" ELSE DefaultPrice,
            IF llm = "ok" THEN "llm" ELSE DefaultPrice,
            IF price = "ok" THEN "close" ELSE MockCurrentPrice)

\* Fan-out of fetchStockDetail: one try/catch around the three bodies, read in
\* the order neuralprophet, llm, prices; a throw skips the bodies after it.
DetailFanOut(llm, neural, price) ==
  LET neuralThrows == HasBody(neural) /\ BodyThrows(neural)
      llmRead == ~neuralThrows
      llmThrows == llmRead /\ HasBody(llm) /\ BodyThrows(llm)
      priceRead == llmRead /\ ~llmThrows
  IN Composite(IF neural = "ok" THEN "neural" ELSE DefaultPrice,
               IF llmRead /\ llm = "ok" THEN "llm" ELSE DefaultPrice,
               IF priceRead /\ price = "ok" THEN "close" ELSE MockCurrentPrice)

\* fetchLogic of fetchStockPrediction: response.json() is awaited outside the
\* try, which guards only the JSON.parse of a string body.
PredictionFetch(llm, neural) ==
  IF llm = "parse" \/ neural = "parse" THEN CompositeFailed
  ELSE Composite(IF neural = "ok" THEN "neural" ELSE DefaultPrice,
                 IF llm = "ok" THEN "llm" ELSE DefaultPrice,
                 "none")

\* fetchLogic of fetchHistoricalPredictions: neither response.json() nor
\* JSON.parse is guarded.
HistoricalPredictionsFetch(llm, neural) ==
  IF BodyThrows(llm) \/ BodyThrows(neural) THEN CompositeFailed
  ELSE Composite(IF neural = "ok" THEN "neural" ELSE DefaultPrice,
                 IF llm = "ok" THEN "llm" ELSE DefaultPrice,
                 "none")

Composites ==
  {"fetchStocks", "fetchStockDetail", "fetchStockPrediction", "fetchHistoricalPredictions"}
\* The composite fetchers that request a current price.
WithPrice == {"fetchStocks", "fetchStockDetail"}

RunComposite(fn, llm, neural, price) ==
  IF fn = "fetchStocks" THEN EntityComposition(llm, neural, price)
  ELSE IF fn = "fetchStockDetail" THEN DetailFanOut(llm, neural, price)
  ELSE IF fn = "fetchStockPrediction" THEN PredictionFetch(llm, neural)
  ELSE HistoricalPredictionsFetch(llm, neural)

CInit ==
  /\ QueueIdle
  /\ concurrency = ApiConcurrency
  /\ AppIdle
  /\ store = EmptyStore
  /\ now = 0
  /\ ticks = 0
  /\ last = [op |-> "none"]

\* One run of the sub-requests of a composite fetcher, each ending in one of
\* the outcomes.
CompositeRuns(fn, llm, neural, price) ==
  /\ last' = [op |-> "composite", fn |-> fn, llm |-> llm, neural |-> neural,
              price |-> price, result |-> RunComposite(fn, llm, neural, price)]
  /\ UNCHANGED <<store, now, ticks, queueVars, appVars>>

CNext ==
  \/ \E fn \in WithPrice, llm, neural, price \in SubOutcomes :
        CompositeRuns(fn, llm, neural, price)
  \/ \E fn \in Composites \ WithPrice, llm, neural \in SubOutcomes :
        CompositeRuns(fn, llm, neural, "none")

CompositeSpec == CInit /\ [][CNext]_vars

(* -------------------------- percentage deltas ------------------------- *)
\* JavaScript numbers: amounts are counted in halves of the currency unit, so
\* that the mean of two changes is a whole count; a percentage is counted in
\* hundredths of a percent, which is what toFixed(2) keeps.
JsNum(n) == [kind |-> "number", v |-> n]
JsNaN == [kind |-> "NaN"]
JsInfinity(sign) == [kind |-> "Infinity", sign |-> sign]
Amount(units) == JsNum(2 * units)

\* a - b, a + b, a / 2 on amounts.
JsSub(a, b) == IF a.kind = "number" /\ b.kind = "number" THEN JsNum(a.v - b.v) ELSE JsNaN
JsAdd(a, b) == IF a.kind = "number" /\ b.kind = "number" THEN JsNum(a.v + b.v) ELSE JsNaN
JsHalf(a) == IF a.kind = "number" THEN JsNum(a.v \div 2) ELSE JsNaN

\* n / d rounded to the nearest whole, halves away from zero (d > 0).
RoundDiv(n, d) ==
  IF n >= 0 THEN (2 * n + d) \div (2 * d) ELSE 0 - ((2 * (0 - n) + d) \div (2 * d))

\* Number(((change / currentPrice) * 100).toFixed(2)), in hundredths.
PercentOf(change, cur) ==
  IF change.kind /= "number" \/ cur.kind /= "number" THEN JsNaN
  ELSE IF cur.v = 0
         THEN IF change.v = 0 THEN JsNaN
              ELSE JsInfinity(IF change.v > 0 THEN 1 ELSE -1)
  ELSE JsNum(RoundDiv(change.v * 10000, cur.v))

\* currentPrice !== 0 ? Number(((change / currentPrice) * 100).toFixed(2)) : 0
\* with the divisors the expression divided by.
ChangePercent_NoGuard(change, cur) ==
  [value |-> PercentOf(change, cur), divisors |-> {cur}]

ChangePercent(change, cur) ==
  IF cur /= JsNum(0)
    THEN [value |-> PercentOf(change, cur), divisors |-> {cur}]
    ELSE [value |-> JsNum(0), divisors |-> {}]

\* The delta fields of a per-entity record of fetchStocks.
EntityDeltas(price1, price2, currentPrice) ==
  LET change1 == JsSub(price1, currentPrice)
      change2 == JsSub(price2, currentPrice)
      averageChange == JsHalf(JsAdd(change1, change2))
      p1 == ChangePercent(change1, currentPrice)
      p2 == ChangePercent(change2, currentPrice)
      pa == ChangePercent(averageChange, currentPrice)
  IN [change1 |-> change1, changePercent1 |-> p1.value,
      change2 |-> change2, changePercent2 |-> p2.value,
      averageChange |-> averageChange, averageChangePercent |-> pa.value,
      divisors |-> p1.divisors \cup p2.divisors \cup pa.divisors]

\* The delta fields of the record of fetchStockDetail.
DetailDeltas(price1, price2, currentPrice) ==
  LET change1 == JsSub(price1, currentPrice)
      change2 == JsSub(price2, currentPrice)
      averageChange == JsHalf(JsAdd(change1, change2))
      p1 == ChangePercent(change1, currentPrice)
      p2 == ChangePercent(change2, currentPrice)
      pa == ChangePercent(averageChange, currentPrice)
  IN [change1 |-> change1, changePercent1 |-> p1.value,
      change2 |-> change2, changePercent2 |-> p2.value,
      averageChange |-> averageChange, averageChangePercent |-> pa.value,
      divisors |-> p1.divisors \cup p2.divisors \cup pa.divisors]

\* The prices a body carries: whole amounts, or something that is no number
\* (a missing field).
Prices == {Amount(n) : n \in 0..MaxPrice} \cup {JsNaN}

\* fetchStocks or fetchStockDetail computes the deltas of one stock.
ComputesDeltas(fn, price1, price2, currentPrice) ==
  /\ last' = [op |-> "deltas", fn |-> fn, price1 |-> price1, price2 |-> price2,
              currentPrice |-> currentPrice,
              result |-> IF fn = "fetchStocks"
                           THEN EntityDeltas(price1, price2, currentPrice)
                           ELSE DetailDeltas(price1, price2, currentPrice)]
  /\ UNCHANGED <<store, now, ticks, queueVars, appVars>>

PNext ==
  \E fn \in WithPrice, price1, price2, currentPrice \in Prices :
     ComputesDeltas(fn, price1, price2, currentPrice)

PercentSpec == CInit /\ [][PNext]_vars

(* ----------------------------- cache keys ----------------------------- *)
\* The cache key each public fetch function builds from its arguments.
\* `${days}` of a whole number is its decimal notation.
DetailKeyOf(code) == "stock_detail_" \o code
HistoryKeyOf(code, days) == "stock_history_" \o code \o "_" \o ToString(days)
HistoryPredKeyOf(code, days) == "stock_history_pred_" \o code \o "_" \o ToString(days)
PredictionKeyOf(code) == "stock_prediction_" \o code

\* Entity codes a caller passes (code: string) and day counts.
KeyCodes == {"2330", "2330_30", "pred_2330"}
KeyDays == {20, 30}

\* An orchestrator call: its resource kind and its parameters.
Request(kind, code, days) == [kind |-> kind, code |-> code, days |-> days]
Requests ==
  {Request("list", "", 0)}
  \cup {Request(kind, code, 0) : kind \in {"detail", "prediction"}, code \in KeyCodes}
  \cup {Request(kind, code, days) :
          kind \in {"history", "historyPred"}, code \in KeyCodes, days \in KeyDays}

CacheKeyOf(r) ==
  IF r.kind = "list" THEN ListKey
  ELSE IF r.kind = "detail" THEN DetailKeyOf(r.code)
  ELSE IF r.kind = "prediction" THEN PredictionKeyOf(r.code)
  ELSE IF r.kind = "history" THEN HistoryKeyOf(r.code, r.days)
  ELSE HistoryPredKeyOf(r.code, r.days)

\* Two orchestrator calls build their cache keys.
BuildKeys(a, b) ==
  /\ last' = [op |-> "keys", a |-> a, b |-> b, ka |-> CacheKeyOf(a), kb |-> CacheKeyOf(b)]
  /\ UNCHANGED <<store, now, ticks, queueVars, appVars>>

KNext == \E a, b \in Requests : BuildKeys(a, b)

KeySpec == CInit /\ [][KNext]_vars

(* --------- the public fetch functions and the prefetch scheduler ------ *)
\* Entity codes the backend lists, and the lists of at most n of them.
Codes == {"2330", "2317", "2454"}
Lists(codes, n) == UNION {[1..k -> codes] : k \in 0..n}

\* The keys the application reads and writes for these codes.
AppKeys ==
  {ListKey} \cup {DetailKeyOf(code) : code \in Codes}
            \cup {HistoryKeyOf(code, DefaultHistoryDays) : code \in Codes}
            \cup {PredictionKeyOf(code) : code \in Codes}

\* The lists the backend answers the list request with.
BackendLists == {<<>>, <<"2330">>}

\* Ids of the fetchWithCache calls and of the queue operations of a run with
\* this backend: a user call makes at most one list call and three prefetch
\* calls for the stock listed, and adds at most one list operation, one
\* operation for the stock and three prefetch operations.
AppCallIds == 1..(MaxUserCalls * 4)
AppOpIds == 1..(MaxUserCalls * 5)

\* A fetchWithCache call together with the public function that made it:
\* fn the function, filtered whether fetchFilteredStocks filters its result,
\* by the fetchStocks call whose prefetch made it (0: the user), before the
\* entry its key held when the public function was called, out and outVal the
\* promise of the public function, prefetched the number of times the call
\* has invoked the prefetch scheduler.
PublicIdleCall ==
  [st |-> "idle", key |-> "", force |-> FALSE, cached |-> Null, op |-> 0,
   result |-> NoValue, path |-> "", wrote |-> FALSE,
   fn |-> "", filtered |-> FALSE, by |-> 0, before |-> Absent,
   out |-> "none", outVal |-> NoValue, prefetched |-> 0]
AppOp(kind, owner, code) == [kind |-> kind, owner |-> owner, size |-> -1, code |-> code]

\* The functions that resolve with the list: fetchStocks, and the two that
\* call it.
ListFns == {"fetchStocks", "fetchFilteredStocks", "refreshStocksData"}

\* The queue, the calls and the store as one record.
World ==
  [q |-> QueueState, calls |-> calls, ops |-> ops, nextOp |-> nextOp,
   nextCall |-> nextCall, store |-> store]
SetWorld(w) ==
  /\ SetQueue(w.q)
  /\ calls' = w.calls
  /\ ops' = w.ops
  /\ nextOp' = w.nextOp
  /\ nextCall' = w.nextCall
  /\ store' = w.store

\* fetchWithCache(key, fetcher) up to its first await, called by `fn` at time t.
StartFetch_SharesInFlight(w, fn, filtered, key, kind, code, by, before, t, cap) ==
  LET c == w.nextCall
      o == w.nextOp
      cached == StorageGet(w.store, key, t)
      call == [PublicIdleCall EXCEPT !.key = key, !.cached = cached, !.fn = fn,
                                     !.filtered = filtered, !.by = by,
                                     !.before = before, !.out = "pending"]
      inFlight == {d \in DOMAIN w.calls : w.calls[d].st = "queued" /\ w.calls[d].key = key}
  IN IF IsFreshHit(cached, FALSE)
       THEN [w EXCEPT !.calls[c] = [call EXCEPT !.st = "resolved",
                                                !.result = cached.value,
                                                !.path = "CACHE_FRESH_HIT"],
                      !.nextCall = c + 1]
       ELSE IF inFlight /= {}
         THEN [w EXCEPT !.calls[c] =
                          [call EXCEPT !.st = "queued",
                                       !.op = w.calls[CHOOSE d \in inFlight : TRUE].op],
                        !.nextCall = c + 1]
         ELSE [w EXCEPT !.calls[c] = [call EXCEPT !.st = "queued", !.op = o],
                        !.q = QueueAdd(w.q, cap, o, FALSE),
                        !.ops[o] = AppOp(kind, c, code),
                        !.nextOp = o + 1,
                        !.nextCall = c + 1]

StartFetch(w, fn, filtered, key, kind, code, by, before, t, cap) ==
  LET c == w.nextCall
      o == w.nextOp
      cached == StorageGet(w.store, key, t)
      call == [PublicIdleCall EXCEPT !.key = key, !.cached = cached, !.fn = fn,
                                     !.filtered = filtered, !.by = by,
                                     !.before = before, !.out = "pending"]
  IN IF IsFreshHit(cached, FALSE)
       THEN [w EXCEPT !.calls[c] = [call EXCEPT !.st = "resolved",
                                                !.result = cached.value,
                                                !.path = "CACHE_FRESH_HIT"],
                      !.nextCall = c + 1]
       ELSE [w EXCEPT !.calls[c] = [call EXCEPT !.st = "queued", !.op = o],
                      !.q = QueueAdd(w.q, cap, o, FALSE),
                      !.ops[o] = AppOp(kind, c, code),
                      !.nextOp = o + 1,
                      !.nextCall = c + 1]

\* throw { code: 'FETCH_STOCKS_ERROR', message, details: error }
StandardError(code, err) == <<code>> \o err
ErrorCodes == {"FETCH_STOCKS_ERROR"}
IsStandardError(v) == Len(v) >= 1 /\ v[1] \in ErrorCodes

\* fetchStockDetail, fetchHistoricalData, fetchStockPrediction:
\* return fetchWithCache(cacheKey, fetchLogic).
FetcherReturns(call) ==
  IF call.st = "rejected"
    THEN [call EXCEPT !.out = "rejected", !.outVal = call.result]
    ELSE [call EXCEPT !.out = "fulfilled", !.outVal = call.result]

\* .catch(() => { }) on a call the scheduler made.
OnPrefetchError_Surfaces(w, c) ==
  [w EXCEPT !.calls[w.calls[c].by].out = "rejected",
            !.calls[w.calls[c].by].outVal = w.calls[c].result]

OnPrefetchError(w, c) == w

\* A fetch function whose fetchWithCache call c returned at once returns too.
FetcherIn(w, c) ==
  IF w.calls[c].st = "resolved" THEN [w EXCEPT !.calls[c] = FetcherReturns(@)] ELSE w

\* One of the three fetch functions called with `code`, up to its first await.
StartFetcher(w, fn, key, code, by, t, cap) ==
  FetcherIn(StartFetch(w, fn, FALSE, key, "fetch", code, by, w.store[key], t, cap),
            w.nextCall)

\* storage.get(key)?.isExpired === false
HasFresh_IgnoresExpiry(st, key, t) == StorageGet(st, key, t).tag = "found"

HasFresh(st, key, t) ==
  LET got == StorageGet(st, key, t) IN got.tag = "found" /\ got.isExpired = FALSE

\* The keys prefetchAllStocksDetails probes for a stock.
ProbeDetailKey_ProbesPrediction(code) == "stock_prediction_" \o code

ProbeDetailKey(code) == "stock_detail_" \o code
ProbeHistoryKey(code) == "stock_history_" \o code \o "_30"
ProbePredictionKey(code) == "stock_prediction_" \o code

\* The three keys of a stock.
EntityKeysOf(code) ==
  {ProbeDetailKey(code), ProbeHistoryKey(code), ProbePredictionKey(code)}

\* prefetchAllStocksDetails(stocks) from its i-th stock on, called by the
\* fetchStocks call `by`: the three probes of an entity, then its fetches.
\* if (!has) { fn(code).catch(() => { }) }
FetchUnless(has, w, fn, key, code, by, t, cap) ==
  IF has THEN w ELSE StartFetcher(w, fn, key, code, by, t, cap)

RECURSIVE PrefetchFrom(_, _, _, _, _, _)
PrefetchFrom(w, stocks, i, by, t, cap) ==
  IF i > Len(stocks) THEN w
  ELSE LET code == stocks[i]
           hasDetail == HasFresh(w.store, ProbeDetailKey(code), t)
           hasHistory == HasFresh(w.store, ProbeHistoryKey(code), t)
           hasPrediction == HasFresh(w.store, ProbePredictionKey(code), t)
       IN PrefetchFrom(
            FetchUnless(hasPrediction,
              FetchUnless(hasHistory,
                FetchUnless(hasDetail, w,
                            "fetchStockDetail", DetailKeyOf(code), code, by, t, cap),
                "fetchHistoricalData", HistoryKeyOf(code, DefaultHistoryDays),
                code, by, t, cap),
              "fetchStockPrediction", PredictionKeyOf(code), code, by, t, cap),
            stocks, i + 1, by, t, cap)

PrefetchAllStocksDetails(w, stocks, by, t, cap) ==
  PrefetchFrom([w EXCEPT !.calls[by].prefetched = @ + 1], stocks, 1, by, t, cap)

\* fetchFilteredStocks keeps the stocks that match the filters.
Matching == {"2330"}
Filter(filtered, stocks) ==
  IF filtered THEN SelectSeq(stocks, LAMBDA code : code \in Matching) ELSE stocks

\* fetchStocks after the scheduler was called and `started` calls were made by
\* it: return result, without awaiting them.
FetchStocksReturns_AwaitsPrefetch(call, started) ==
  IF started = 0
    THEN [call EXCEPT !.out = "fulfilled", !.outVal = Filter(call.filtered, call.result)]
    ELSE call

FetchStocksReturns(call, started) ==
  [call EXCEPT !.out = "fulfilled", !.outVal = Filter(call.filtered, call.result)]

\* return result, in the world the scheduler left; `before` is the number of
\* the first call the scheduler could make.
ReturnsIn(w, c, before) ==
  [w EXCEPT !.calls[c] = FetchStocksReturns(@, w.nextCall - before)]

\* fetchStocks after its fetchWithCache call c settled: on a result the
\* scheduler is called and the result returned; an error is wrapped.
FetchStocksContinues_OnlyAfterFetch(w, c, t, cap) ==
  IF w.calls[c].st = "rejected"
    THEN [w EXCEPT !.calls[c].out = "rejected",
                   !.calls[c].outVal = StandardError("FETCH_STOCKS_ERROR", w.calls[c].result)]
    ELSE ReturnsIn(IF w.calls[c].path = "SUCCEEDED"
                     THEN PrefetchAllStocksDetails(w, w.calls[c].result, c, t, cap)
                     ELSE w,
                   c, w.nextCall)

FetchStocksContinues(w, c, t, cap) ==
  IF w.calls[c].st = "rejected"
    THEN [w EXCEPT !.calls[c].out = "rejected",
                   !.calls[c].outVal = StandardError("FETCH_STOCKS_ERROR", w.calls[c].result)]
    ELSE ReturnsIn(PrefetchAllStocksDetails(w, w.calls[c].result, c, t, cap),
                   c, w.nextCall)

\* The public function of call c after its fetchWithCache call settled.
PublicContinues(w, c, t, cap) ==
  IF w.calls[c].fn \in ListFns THEN FetchStocksContinues(w, c, t, cap)
  ELSE LET w1 == [w EXCEPT !.calls[c] = FetcherReturns(@)]
       IN IF w1.calls[c].by /= 0 /\ w1.calls[c].out = "rejected"
            THEN OnPrefetchError(w1, c)
            ELSE w1

\* The .finally of the queue, after the reactions to the settled promise.
FinallyIn(w, cap) == [w EXCEPT !.q = QueueFinally(w.q, cap, FALSE)]

\* The queued operation o of a call fulfils with `data`: item.resolve, the
\* continuation of fetchWithCache, that of the public function, then the
\* .finally of the queue.
FulfilIn(w, o, data, writeOk, t, cap) ==
  LET c == w.ops[o].owner
      w1 == [w EXCEPT !.q = QueueSettle(w.q, o, "fulfilled", data)]
      w2 == [w1 EXCEPT !.calls[c] =
                         IF StorageSetReturns(writeOk)
                           THEN [OnFetchData(w.calls[c], data) EXCEPT !.wrote = writeOk]
                           ELSE OnFetchError(w.calls[c], <<"StorageFailure">>),
                       !.store = StoreFetched(w.store, w.calls[c], data, t, writeOk)]
  IN FinallyIn(PublicContinues(w2, c, t, cap), cap)

\* The queued operation o of a call rejects with `err`.
RejectIn(w, o, err, t, cap) ==
  LET c == w.ops[o].owner
      w1 == [w EXCEPT !.q = QueueSettle(w.q, o, "rejected", err)]
      w2 == [w1 EXCEPT !.calls[c] = OnFetchError(w.calls[c], err)]
  IN FinallyIn(PublicContinues(w2, c, t, cap), cap)

\* The user interface calls fetchStocks() or fetchFilteredStocks(filters).
UserCalls == Cardinality({c \in DOMAIN calls : calls[c].st /= "idle" /\ calls[c].by = 0})

\* fetchStocks whose fetchWithCache call c returned at once goes on at once.
ListCallIn(w, c, t, cap) ==
  IF w.calls[c].st = "resolved" THEN FetchStocksContinues(w, c, t, cap) ELSE w

\* fetchStocks() up to its first await, called by `fn`.
FetchStocksCalled(fn, filtered) ==
  SetWorld(ListCallIn(StartFetch(World, fn, filtered, ListKey, "list", "", 0,
                                 store[ListKey], now, concurrency),
                      nextCall, now, concurrency))

UFetchStocks(fn, filtered) ==
  /\ UserCalls < MaxUserCalls
  /\ FetchStocksCalled(fn, filtered)
  /\ UNCHANGED <<concurrency, now, ticks, last>>

\* refreshStocksData(): storage.clearAll(); return fetchStocks().
RefreshStocksDataCalled ==
  SetWorld(ListCallIn(StartFetch([World EXCEPT !.store = ClearAll(store)],
                                 "refreshStocksData", FALSE, ListKey, "list", "", 0,
                                 store[ListKey], now, concurrency),
                      nextCall, now, concurrency))

URefreshStocksData ==
  /\ UserCalls < MaxUserCalls
  /\ RefreshStocksDataCalled
  /\ UNCHANGED <<concurrency, now, ticks, last>>

\* The user interface calls fetchStockDetail(code).
FetchStockDetailCalled(code) ==
  SetWorld(StartFetcher(World, "fetchStockDetail", DetailKeyOf(code), code, 0,
                        now, concurrency))

UFetchStockDetail(code) ==
  /\ UserCalls < MaxUserCalls
  /\ FetchStockDetailCalled(code)
  /\ UNCHANGED <<concurrency, now, ticks, last>>

\* What the per-entity composition of fetchStocks yields for a stock.
StockOf(code) == <<code>>

\* fetchLogic of fetchStocks: the list request answers with `stocks`; one
\* operation per stock is added to the same queue and Promise.all awaits
\* them. With no stock Promise.all resolves at once and the operation completes.
AListResponds(o, stocks) ==
  /\ Running(o) /\ ops[o].kind = "list" /\ ops[o].size = -1
  /\ LET n == Len(stocks)
         w1 == [World EXCEPT
                  !.ops = [x \in DOMAIN ops |->
                             IF x = o THEN [ops[o] EXCEPT !.size = n]
                             ELSE IF x >= nextOp /\ x < nextOp + n
                                    THEN [kind |-> "entity", owner |-> o, size |-> 0,
                                          code |-> stocks[x - nextOp + 1]]
                                    ELSE ops[x]],
                  !.nextOp = nextOp + n,
                  !.q = AddEntities(QueueState, concurrency, nextOp, n)]
     IN SetWorld(IF n = 0 THEN FulfilIn(w1, o, <<>>, TRUE, now, concurrency) ELSE w1)
  /\ UNCHANGED <<concurrency, now, ticks, last>>

\* fetchLogic of fetchStocks: the list request fails.
AListFails(o, err) ==
  /\ Running(o) /\ ops[o].kind = "list" /\ ops[o].size = -1
  /\ SetWorld(RejectIn(World, o, err, now, concurrency))
  /\ UNCHANGED <<concurrency, now, ticks, last>>

\* Promise.all of list operation p: once the last of its per-entity
\* operations is done, fetchLogic returns the list and p completes.
AllSettledIn(w, p, t, cap) ==
  LET sibs == {x \in DOMAIN w.ops : w.ops[x].kind = "entity" /\ w.ops[x].owner = p}
      first == CHOOSE x \in sibs : \A y \in sibs : x <= y
  IN IF \A x \in sibs : w.q.opState[x] = "done"
       THEN FulfilIn(w, p, ListValue(w.q.handleVal, first, w.ops[p].size), TRUE, t, cap)
       ELSE w

\* The per-entity operation o completes with its stock. When it is the last
\* of its list, Promise.all resolves, fetchLogic returns and the list
\* operation completes in the same chain of reactions.
AEntityCompletes(o) ==
  /\ Running(o) /\ ops[o].kind = "entity"
  /\ SetWorld(AllSettledIn(
                [World EXCEPT !.q = QueueFinally(
                   QueueSettle(QueueState, o, "fulfilled", StockOf(ops[o].code)),
                   concurrency, FALSE)],
                ops[o].owner, now, concurrency))
  /\ UNCHANGED <<concurrency, now, ticks, last>>

\* The fetchLogic of a detail, history or prediction call returns data.
AFetchSucceeds(o, data, writeOk) ==
  /\ Running(o) /\ ops[o].kind = "fetch"
  /\ SetWorld(FulfilIn(World, o, data, writeOk, now, concurrency))
  /\ UNCHANGED <<concurrency, now, ticks, last>>

\* The fetchLogic of a detail, history or prediction call throws.
AFetchFails(o, err) ==
  /\ Running(o) /\ ops[o].kind = "fetch"
  /\ SetWorld(RejectIn(World, o, err, now, concurrency))
  /\ UNCHANGED <<concurrency, now, ticks, last>>

\* The page loads at StartTime with what an earlier session left in
\* localStorage: nothing, or a list and a detail entry now past their expiry.
AbsentStore == [k \in AppKeys |-> Absent]
SessionStores ==
  {AbsentStore,
   [AbsentStore EXCEPT ![ListKey] = CacheItem(<<"2330">>, 0, DefaultTTL),
                       ![DetailKeyOf("2330")] = CacheItem(OldValue, 0, DefaultTTL)]}

AppQueueIdle ==
  /\ queue = <<>>
  /\ activeCount = 0
  /\ opState = [o \in AppOpIds |-> "unused"]
  /\ handle = [o \in AppOpIds |-> "none"]
  /\ handleVal = [o \in AppOpIds |-> NoValue]
  /\ admitted = <<>>
  /\ waited = {}
  /\ ops = [o \in AppOpIds |-> AppOp("generic", 0, "")]
  /\ nextOp = 1

AppInit ==
  /\ AppQueueIdle
  /\ concurrency = ApiConcurrency
  /\ calls = [c \in AppCallIds |-> PublicIdleCall]
  /\ nextCall = 1
  /\ store \in SessionStores
  /\ now = StartTime
  /\ ticks = 0
  /\ last = [op |-> "none"]

AppNext ==
  \/ UFetchStocks("fetchStocks", FALSE)
  \/ \E filtered \in BOOLEAN : UFetchStocks("fetchFilteredStocks", filtered)
  \/ URefreshStocksData
  \/ UFetchStockDetail("2330")
  \/ \E o \in AppOpIds, stocks \in BackendLists : AListResponds(o, stocks)
  \/ \E o \in AppOpIds : AListFails(o, <<"NetworkFailure">>)
  \/ \E o \in AppOpIds : AEntityCompletes(o)
  \/ \E o \in AppOpIds : AFetchSucceeds(o, <<"a">>, TRUE)
  \/ \E o \in AppOpIds : AFetchFails(o, <<"NetworkFailure">>)

AppSpec == AppInit /\ [][AppNext]_vars

(* ---------- the prefetch scheduler on every list and store ------------ *)
\* An entry written during this session, and one left by an earlier session
\* that is past its expiry at StartTime.
FreshEntry(v) == CacheItem(v, StartTime, StartTime + DefaultTTL)
ExpiredEntry(v) == CacheItem(v, 0, DefaultTTL)

\* What the store holds for the three per-entity keys of a stock.
Profiles ==
  {[detail |-> Absent, history |-> Absent, prediction |-> Absent],
   [detail |-> FreshEntry(OldValue), history |-> FreshEntry(OldValue),
    prediction |-> FreshEntry(OldValue)],
   [detail |-> FreshEntry(OldValue), history |-> ExpiredEntry(OldValue),
    prediction |-> Absent],
   [detail |-> ExpiredEntry(OldValue), history |-> Corrupt,
    prediction |-> FreshEntry(OldValue)]}

StoreWith(listEntry, profile) ==
  [k \in AppKeys |->
     IF k = ListKey THEN listEntry
     ELSE LET code == CHOOSE c \in Codes :
                         k \in {DetailKeyOf(c), HistoryKeyOf(c, DefaultHistoryDays),
                                PredictionKeyOf(c)}
          IN IF k = DetailKeyOf(code) THEN profile[code].detail
             ELSE IF k = PredictionKeyOf(code) THEN profile[code].prediction
             ELSE profile[code].history]

\* The list entry an earlier fetchStocks left: fresh or expired.
ListEntries ==
  {FreshEntry(stocks) : stocks \in Lists(Codes, MaxList)}
  \cup {ExpiredEntry(stocks) : stocks \in Lists(Codes, MaxList)}

SchedulerIds == 1..(MaxUserCalls * (1 + 3 * MaxList))

SchedulerInit ==
  /\ queue = <<>>
  /\ activeCount = 0
  /\ opState = [o \in SchedulerIds |-> "unused"]
  /\ handle = [o \in SchedulerIds |-> "none"]
  /\ handleVal = [o \in SchedulerIds |-> NoValue]
  /\ admitted = <<>>
  /\ waited = {}
  /\ ops = [o \in SchedulerIds |-> AppOp("generic", 0, "")]
  /\ nextOp = 1
  /\ concurrency = ApiConcurrency
  /\ calls = [c \in SchedulerIds |-> PublicIdleCall]
  /\ nextCall = 1
  /\ store \in {StoreWith(e, profile) : e \in ListEntries, profile \in [Codes -> Profiles]}
  /\ now = StartTime
  /\ ticks = 0
  /\ last = [op |-> "none"]

\* fetchStocks is called and serves the cached list: at once when it is
\* fresh, and when the list request has failed otherwise.
SchedulerNext ==
  \/ UFetchStocks("fetchStocks", FALSE)
  \/ \E o \in SchedulerIds : AListFails(o, <<"NetworkFailure">>)

SchedulerSpec == SchedulerInit /\ [][SchedulerNext]_vars

(* ------------- localStorage shared with the user interface ------------ *)
\* PersistentStorage keeps its entries in window.localStorage under
\* prefix + key; App keeps the colour theme there under 'theme'.
Prefix == "stock_app_cache_"
ThemeKey == "theme"
\* A key of another owner that is no more than the beginning of the prefix.
NearKey == "stock_app_cache"
\* key.startsWith(prefix)
StartsWith(s, p) == Len(s) >= Len(p) /\ SubSeq(s, 1, Len(p)) = p

LocalKeys == {Prefix \o k : k \in Keys} \cup {ThemeKey, NearKey}

\* A string that is no serialised CacheItem, stored by another owner.
Text(v) == [tag |-> "text", value |-> v]
Themes == {"dark", "light"}

\* The entries of PersistentStorage in a localStorage `ls`.
NamespaceOf(ls) ==
  [k \in Keys |-> IF ls[Prefix \o k].tag = "text" THEN Corrupt ELSE ls[Prefix \o k]]

\* clearExpired() on localStorage.
LocalClearExpired_AnyOwner(ls, t) ==
  [k \in DOMAIN ls |->
     IF ls[k].tag = "item" /\ t > ls[k].expiry THEN Absent ELSE ls[k]]

LocalClearExpired(ls, t) ==
  [k \in DOMAIN ls |->
     IF StartsWith(k, Prefix) /\ ls[k].tag = "item" /\ t > ls[k].expiry
       THEN Absent ELSE ls[k]]

\* set(key, value) on localStorage.
LocalSet(ls, key, value, t, writeOk) ==
  IF writeOk
    THEN [ls EXCEPT ![Prefix \o key] = CacheItem(Json(value), t, t + DefaultTTL)]
    ELSE LocalClearExpired(ls, t)

\* clearAll() on localStorage.
LocalClearAll_ClearsStorage(ls) == [k \in DOMAIN ls |-> Absent]

LocalClearAll(ls) ==
  [k \in DOMAIN ls |-> IF StartsWith(k, Prefix) THEN Absent ELSE ls[k]]

\* In this specification `store` is the whole of localStorage, by full key.
LInit ==
  /\ QueueIdle
  /\ concurrency = ApiConcurrency
  /\ AppIdle
  /\ store \in {[k \in LocalKeys |->
                   IF k = ThemeKey THEN theme
                   ELSE IF k = NearKey THEN near
                   ELSE entries[k]] :
                  theme \in {Absent, Text("dark")},
                  near \in {Text("other"), CacheItem(Json(<<"other">>), 0, 0)},
                  entries \in [{Prefix \o k : k \in Keys} -> {Absent, Corrupt}]}
  /\ now = 0
  /\ ticks = 0
  /\ last = [op |-> "none"]

\* storage.set(k, v)
LSet(k, v, writeOk) ==
  /\ store' = LocalSet(store, k, v, now, writeOk)
  /\ last' = [op |-> "set", key |-> k]
  /\ UNCHANGED <<now, ticks, queueVars, appVars>>

\* The theme effect of App: localStorage.setItem('theme', ...)
LSetTheme(theme) ==
  /\ store' = [store EXCEPT ![ThemeKey] = Text(theme)]
  /\ last' = [op |-> "theme"]
  /\ UNCHANGED <<now, ticks, queueVars, appVars>>

\* storage.clearAll(); `removed` counts the keys that held something and
\* hold nothing afterwards.
LClearAll ==
  /\ store' = LocalClearAll(store)
  /\ last' = [op |-> "clearAll",
              removed |-> Cardinality({k \in DOMAIN store :
                             store[k] /= Absent /\ store'[k] = Absent})]
  /\ UNCHANGED <<now, ticks, queueVars, appVars>>

\* storage.clearExpired()
LClearExpired ==
  /\ store' = LocalClearExpired(store, now)
  /\ last' = [op |-> "clearExpired", removed |-> Removed(store, store')]
  /\ UNCHANGED <<now, ticks, queueVars, appVars>>

\* A day passes.
LTick ==
  /\ ticks < MaxStoreTicks
  /\ now' = now + DefaultTTL
  /\ ticks' = ticks + 1
  /\ last' = [op |-> "tick"]
  /\ UNCHANGED <<store, queueVars, appVars>>

LNext ==
  \/ \E k \in Keys, v \in Values, writeOk \in BOOLEAN : LSet(k, v, writeOk)
  \/ \E theme \in Themes : LSetTheme(theme)
  \/ LClearAll
  \/ LClearExpired
  \/ LTick

LocalSpec == LInit /\ [][LNext]_vars

(* ------------------- overlapping fetchStocks calls -------------------- *)
\* The user interface calls fetchStocks on mount, on a filter change and on
\* refresh; nothing keeps a call from starting while earlier ones run.
OverlapCallIds == 1..(MaxListCalls * 4)
OverlapOpIds == 1..(MaxListCalls * 5)

\* What localStorage holds when the calls start: the list entry missing and
\* the per-entity entries of the stock fresh; the list entry and the detail
\* entry of the stock missing; the list entry fresh and the detail entry of
\* the stock missing.
OverlapStores ==
  {[k \in AppKeys |->
      IF k \in EntityKeysOf("2330") THEN FreshEntry(OldValue) ELSE Absent],
   [k \in AppKeys |->
      IF k \in EntityKeysOf("2330") \ {DetailKeyOf("2330")} THEN FreshEntry(OldValue)
      ELSE Absent],
   [k \in AppKeys |->
      IF k = ListKey THEN FreshEntry(<<"2330">>)
      ELSE IF k \in EntityKeysOf("2330") \ {DetailKeyOf("2330")} THEN FreshEntry(OldValue)
      ELSE Absent]}

OverlapInit ==
  /\ queue = <<>>
  /\ activeCount = 0
  /\ opState = [o \in OverlapOpIds |-> "unused"]
  /\ handle = [o \in OverlapOpIds |-> "none"]
  /\ handleVal = [o \in OverlapOpIds |-> NoValue]
  /\ admitted = <<>>
  /\ waited = {}
  /\ ops = [o \in OverlapOpIds |-> AppOp("generic", 0, "")]
  /\ nextOp = 1
  /\ concurrency = ApiConcurrency
  /\ calls = [c \in OverlapCallIds |-> PublicIdleCall]
  /\ nextCall = 1
  /\ store \in OverlapStores
  /\ now = StartTime
  /\ ticks = 0
  /\ last = [op |-> "none"]

\* The user interface calls fetchStocks().
OFetchStocks ==
  /\ UserCalls < MaxListCalls
  /\ FetchStocksCalled("fetchStocks", FALSE)
  /\ UNCHANGED <<concurrency, now, ticks, last>>

OverlapNext ==
  \/ OFetchStocks
  \/ \E o \in OverlapOpIds, stocks \in BackendLists : AListResponds(o, stocks)
  \/ \E o \in OverlapOpIds : AListFails(o, <<"NetworkFailure">>)
  \/ \E o \in OverlapOpIds : AEntityCompletes(o)
  \/ \E o \in OverlapOpIds : AFetchSucceeds(o, <<"a">>, TRUE)
  \/ \E o \in OverlapOpIds : AFetchFails(o, <<"NetworkFailure">>)

OverlapSpec == OverlapInit /\ [][OverlapNext]_vars

(* ------------------------- fetchFilteredStocks ------------------------ *)
\* What JSON.stringify leaves of a NaN in a list read back from the cache.
JsNull == [kind |-> "null"]
\* ToNumber of a value compared with a number.
JsToNumber(a) == IF a.kind = "null" THEN JsNum(0) ELSE a

\* a >= b and a <= b of JavaScript.
JsGte(a, b) ==
  LET x == JsToNumber(a)
      y == JsToNumber(b)
  IN IF x.kind = "NaN" \/ y.kind = "NaN" THEN FALSE
     ELSE IF x.kind = "Infinity" THEN x.sign = 1 \/ (y.kind = "Infinity" /\ y.sign = -1)
     ELSE IF y.kind = "Infinity" THEN y.sign = -1
     ELSE x.v >= y.v
JsLte(a, b) == JsGte(b, a)

\* The filter of fetchFilteredStocks on the data of the list response.
FilterStocks_Strict(filters, data) ==
  IF filters.upTrendEnabled \/ filters.downTrendEnabled
    THEN SelectSeq(data, LAMBDA stock :
           LET method1Match ==
                 \/ filters.upTrendEnabled
                      /\ ~JsLte(stock.changePercent1, filters.upTrendThreshold)
                 \/ filters.downTrendEnabled
                      /\ JsLte(stock.changePercent1, filters.downTrendThreshold)
               method2Match ==
                 \/ filters.upTrendEnabled
                      /\ ~JsLte(stock.changePercent2, filters.upTrendThreshold)
                 \/ filters.downTrendEnabled
                      /\ JsLte(stock.changePercent2, filters.downTrendThreshold)
           IN method1Match \/ method2Match)
    ELSE data

FilterStocks(filters, data) ==
  IF filters.upTrendEnabled \/ filters.downTrendEnabled
    THEN SelectSeq(data, LAMBDA stock :
           LET method1Match ==
                 \/ filters.upTrendEnabled
                      /\ JsGte(stock.changePercent1, filters.upTrendThreshold)
                 \/ filters.downTrendEnabled
                      /\ JsLte(stock.changePercent1, filters.downTrendThreshold)
               method2Match ==
                 \/ filters.upTrendEnabled
                      /\ JsGte(stock.changePercent2, filters.upTrendThreshold)
                 \/ filters.downTrendEnabled
                      /\ JsLte(stock.changePercent2, filters.downTrendThreshold)
           IN method1Match \/ method2Match)
    ELSE data

\* The percentages a record of the list carries, in hundredths: numbers, NaN
\* in a list just fetched, null in a list read back from the cache.
Percents == {JsNum(-1), JsNum(0), JsNum(1), JsNaN, JsNull}
FilterRecords == [changePercent1 : Percents, changePercent2 : Percents]
\* The filters the user interface passes.
FilterParams ==
  [upTrendEnabled : BOOLEAN, downTrendEnabled : BOOLEAN,
   upTrendThreshold : {JsNum(0), JsNum(1)}, downTrendThreshold : {JsNum(-1), JsNum(0)}]

\* The lists fetchStocks resolves with.
FilterLists == Lists(FilterRecords, MaxRecords)

\* fetchFilteredStocks(filters) after fetchStocks resolved with `data`; one
\* call is followed.
FiltersStocks ==
  /\ last.op = "none"
  /\ \E filters \in FilterParams, data \in FilterLists :
       last' = [op |-> "filter", filters |-> filters, data |-> data,
                result |-> FilterStocks(filters, data)]
  /\ UNCHANGED <<store, now, ticks, queueVars, appVars>>

FilterNext == FiltersStocks

FilterSpec == CInit /\ [][FilterNext]_vars

(* --------------- the records of the list of fetchStocks --------------- *)
\* The symbols the backend lists, and the lists it answers with.
BackendCodes == {"2330", "2317"}
BackendData == Lists(BackendCodes, MaxRecords)

\* mapToFrontendStock(item): the record before its prices are fetched.
MapToFrontendStock(symbol) ==
  [code |-> symbol, currentPrice |-> MockCurrentPrice,
   predictedPrice1 |-> DefaultPrice, predictedPrice2 |-> DefaultPrice]

\* { ...stock, currentPrice, predictedPrice1: price1, predictedPrice2: price2 }
WithPrices(stock, comp) ==
  [stock EXCEPT !.currentPrice = comp.currentPrice,
                !.predictedPrice1 = comp.price1,
                !.predictedPrice2 = comp.price2]

\* A record as the text it is kept as.
StockText(stock) ==
  stock.code \o "|" \o stock.currentPrice \o "|" \o stock.predictedPrice1
             \o "|" \o stock.predictedPrice2

\* Promise.all(stocks.map(async (stock) => { try { return await
\* apiQueue.add(...) } catch (e) { return stock } })): the n records of the
\* list whose first entity operation is `first`, in the order of the list.
RECURSIVE StocksWithPrices_DropsFailed(_, _, _, _)
StocksWithPrices_DropsFailed(q, os, first, n) ==
  IF n = 0 THEN <<>>
  ELSE (IF q.handle[first] = "fulfilled" THEN <<q.handleVal[first][1]>> ELSE <<>>)
         \o StocksWithPrices_DropsFailed(q, os, first + 1, n - 1)

RECURSIVE StocksWithPrices(_, _, _, _)
StocksWithPrices(q, os, first, n) ==
  IF n = 0 THEN <<>>
  ELSE <<IF q.handle[first] = "fulfilled" THEN q.handleVal[first][1]
         ELSE StockText(os[first].stock)>>
         \o StocksWithPrices(q, os, first + 1, n - 1)

\* fetchLogic of fetchStocks: the list request answers with `data`; each item
\* is mapped to its record and one operation per record is added to the queue.
EListResponds(t, data) ==
  /\ Running(t) /\ ops[t].kind = "list" /\ ops[t].size = -1
  /\ nextOp + Len(data) - 1 <= MaxOps
  /\ ops' = [x \in OpIds |->
               IF x = t THEN [kind |-> "list", owner |-> ops[t].owner,
                              size |-> Len(data), data |-> data]
               ELSE IF x >= nextOp /\ x < nextOp + Len(data)
                      THEN [kind |-> "entity", owner |-> t, size |-> 0,
                            stock |-> MapToFrontendStock(data[x - nextOp + 1])]
                      ELSE ops[x]]
  /\ nextOp' = nextOp + Len(data)
  /\ IF Len(data) = 0
       THEN Fulfil(QueueState, t, <<>>, TRUE)
       ELSE /\ SetQueue(AddEntities(QueueState, concurrency, nextOp, Len(data)))
            /\ UNCHANGED <<calls, store>>
  /\ UNCHANGED <<concurrency, nextCall, now, ticks, last>>

\* The per-entity operation t settles: it fulfils with the record and its
\* prices, or it rejects. When it is the last of its list, Promise.all
\* resolves, fetchLogic returns and the list operation completes.
EEntitySettles(t, outcome, val) ==
  /\ Running(t) /\ ops[t].kind = "entity"
  /\ LET p == ops[t].owner
         q1 == QueueFinally(QueueSettle(QueueState, t, outcome, val), concurrency, FALSE)
         sibs == EntitiesOf(p)
         first == CHOOSE x \in sibs : \A y \in sibs : x <= y
     IN IF \A x \in sibs : q1.opState[x] = "done"
          THEN Fulfil(q1, p, StocksWithPrices(q1, ops, first, ops[p].size), TRUE)
          ELSE /\ SetQueue(q1)
               /\ UNCHANGED <<calls, store>>
  /\ UNCHANGED <<concurrency, ops, nextOp, nextCall, now, ticks, last>>

\* The composition of an entity returns its record.
EEntityCompletes(t, llm, neural, price) ==
  EEntitySettles(t, "fulfilled",
                 <<StockText(WithPrices(ops[t].stock, EntityComposition(llm, neural, price)))>>)

\* The composition of an entity throws.
EEntityFails(t, err) == EEntitySettles(t, "rejected", err)

EntityNext ==
  \/ CallFetchStocks
  \/ \E t \in OpIds, data \in BackendData : EListResponds(t, data)
  \/ \E t \in OpIds : ListFails(t, <<"NetworkFailure">>)
  \/ \E t \in OpIds, price \in {"ok", "network"} : EEntityCompletes(t, "ok", "ok", price)
  \/ \E t \in OpIds : EEntityFails(t, <<"TypeError">>)

\* The page loads with nothing cached.
EntityInit == Init /\ store = EmptyStore

EntitySpec == EntityInit /\ [][EntityNext]_vars

(* ------------------- fetchStocks calls one by one --------------------- *)
\* The user interface calls fetchStocks again once the call before has
\* settled. localStorage holds the history and the prediction of the stock,
\* and no list or a list past its expiry.
PathStores ==
  {[k \in AppKeys |->
      IF k = ListKey THEN e
      ELSE IF k \in EntityKeysOf("2330") \ {DetailKeyOf("2330")} THEN FreshEntry(OldValue)
      ELSE Absent] : e \in {Absent, ExpiredEntry(<<"2330">>)}}

PathInit ==
  /\ queue = <<>>
  /\ activeCount = 0
  /\ opState = [o \in OverlapOpIds |-> "unused"]
  /\ handle = [o \in OverlapOpIds |-> "none"]
  /\ handleVal = [o \in OverlapOpIds |-> NoValue]
  /\ admitted = <<>>
  /\ waited = {}
  /\ ops = [o \in OverlapOpIds |-> AppOp("generic", 0, "")]
  /\ nextOp = 1
  /\ concurrency = ApiConcurrency
  /\ calls = [c \in OverlapCallIds |-> PublicIdleCall]
  /\ nextCall = 1
  /\ store \in PathStores
  /\ now = StartTime
  /\ ticks = 0
  /\ last = [op |-> "none"]

\* fetchStocks() is called after the calls of the user interface have settled.
PFetchStocks ==
  /\ UserCalls < MaxListCalls
  /\ \A c \in OverlapCallIds : calls[c].by = 0 => calls[c].out /= "pending"
  /\ FetchStocksCalled("fetchStocks", FALSE)
  /\ UNCHANGED <<concurrency, now, ticks, last>>

PathNext ==
  \/ PFetchStocks
  \/ \E o \in OverlapOpIds, stocks \in BackendLists : AListResponds(o, stocks)
  \/ \E o \in OverlapOpIds : AListFails(o, <<"NetworkFailure">>)
  \/ \E o \in OverlapOpIds : AEntityCompletes(o)
  \/ \E o \in OverlapOpIds : AFetchSucceeds(o, <<"a">>, TRUE)
  \/ \E o \in OverlapOpIds : AFetchFails(o, <<"NetworkFailure">>)

PathSpec == PathInit /\ [][PathNext]_vars

(* ---------------- refresh while operations are in flight -------------- *)
\* The user presses refresh while earlier calls, or the operations a scheduler
\* started, have not completed. The list request of this run fails or answers
\* with no stock: the operations followed are those started before the clear.
\* A call of the user interface makes at most one fetchWithCache call of its
\* own and one through the scheduler, and adds at most one operation.
RefreshIds == 1..(MaxRefreshCalls * 2)

\* Nothing cached, or a fresh list and every entry of its stock but the
\* detail entry.
RefreshStores ==
  {AbsentStore,
   [k \in AppKeys |->
      IF k = ListKey THEN FreshEntry(<<"2330">>)
      ELSE IF k \in EntityKeysOf("2330") \ {DetailKeyOf("2330")} THEN FreshEntry(OldValue)
      ELSE Absent]}

RefreshInit ==
  /\ queue = <<>>
  /\ activeCount = 0
  /\ opState = [o \in RefreshIds |-> "unused"]
  /\ handle = [o \in RefreshIds |-> "none"]
  /\ handleVal = [o \in RefreshIds |-> NoValue]
  /\ admitted = <<>>
  /\ waited = {}
  /\ ops = [o \in RefreshIds |-> AppOp("generic", 0, "")]
  /\ nextOp = 1
  /\ concurrency = ApiConcurrency
  /\ calls = [c \in RefreshIds |-> PublicIdleCall]
  /\ nextCall = 1
  /\ store \in RefreshStores
  /\ now = StartTime
  /\ ticks = 0
  /\ last = [op |-> "none"]

RFetchStocks ==
  /\ UserCalls < MaxRefreshCalls
  /\ FetchStocksCalled("fetchStocks", FALSE)
  /\ UNCHANGED <<concurrency, now, ticks, last>>

RFetchStockDetail(code) ==
  /\ UserCalls < MaxRefreshCalls
  /\ FetchStockDetailCalled(code)
  /\ UNCHANGED <<concurrency, now, ticks, last>>

\* handleRefresh: refreshStocksData().
RRefreshStocksData ==
  /\ UserCalls < MaxRefreshCalls
  /\ RefreshStocksDataCalled
  /\ UNCHANGED <<concurrency, now, ticks, last>>

RefreshNext ==
  \/ RFetchStocks
  \/ RFetchStockDetail("2330")
  \/ RRefreshStocksData
  \/ \E o \in RefreshIds : AListResponds(o, <<>>)
  \/ \E o \in RefreshIds : AListFails(o, <<"NetworkFailure">>)
  \/ \E o \in RefreshIds : AFetchSucceeds(o, <<"a">>, TRUE)
  \/ \E o \in RefreshIds : AFetchFails(o, <<"NetworkFailure">>)

RefreshSpec == RefreshInit /\ [][RefreshNext]_vars

(* ------------------ the scheduler on a warmed cache ------------------- *)
\* fetchStocks is called again and again on a cached list, within the TTL of
\* the list entry; the operations its scheduler starts succeed, with or
\* without their cache write, or fail.
\* An entry an earlier session stored, at its expiry when the page loads.
AgingEntry(v) == CacheItem(v, 1, 1 + DefaultTTL)

\* The list and the history of its stock are cached and the detail entry is
\* missing; the prediction entry is cached too, by this session or by an
\* earlier one.
WarmStores ==
  {[AbsentStore EXCEPT ![ListKey] = FreshEntry(<<"2330">>),
                       ![HistoryKeyOf("2330", DefaultHistoryDays)] = FreshEntry(OldValue),
                       ![PredictionKeyOf("2330")] = e] :
     e \in {FreshEntry(OldValue), AgingEntry(OldValue)}}

WarmIds == 1..(MaxWarmCalls * 4)

WarmInit ==
  /\ queue = <<>>
  /\ activeCount = 0
  /\ opState = [o \in WarmIds |-> "unused"]
  /\ handle = [o \in WarmIds |-> "none"]
  /\ handleVal = [o \in WarmIds |-> NoValue]
  /\ admitted = <<>>
  /\ waited = {}
  /\ ops = [o \in WarmIds |-> AppOp("generic", 0, "")]
  /\ nextOp = 1
  /\ concurrency = ApiConcurrency
  /\ calls = [c \in WarmIds |-> PublicIdleCall]
  /\ nextCall = 1
  /\ store \in WarmStores
  /\ now = StartTime
  /\ ticks = 0
  /\ last = [op |-> "none"]

\* A millisecond passes between two event-loop tasks.
WTick ==
  /\ ticks < MaxTicks
  /\ now' = now + 1
  /\ ticks' = ticks + 1
  /\ UNCHANGED <<store, last, queueVars, appVars>>

\* The user interface calls fetchStocks().
WFetchStocks ==
  /\ UserCalls < MaxWarmCalls
  /\ FetchStocksCalled("fetchStocks", FALSE)
  /\ UNCHANGED <<concurrency, now, ticks, last>>

WarmNext ==
  \/ WFetchStocks
  \/ \E o \in WarmIds, writeOk \in BOOLEAN : AFetchSucceeds(o, <<"a">>, writeOk)
  \/ \E o \in WarmIds : AFetchFails(o, <<"NetworkFailure">>)
  \/ WTick

WarmSpec == WarmInit /\ [][WarmNext]_vars

(* ======================= properties: RequestQueue ===================== *)
\* Operations are numbered in the order of their add() calls: t1 < t2 means
\* add(t1) was called before add(t2).
RunningOps == {t \in OpIds : Running(t)}
NoTaskThrows == \A t \in OpIds : opState[t] /= "threw"

\* C1: in every reachable state 0 <= activeCount <= capacity, and never more
\* than capacity operations are running at once; here on the shared apiQueue,
\* where the list operation of fetchStocks adds one operation per entity to the
\* queue that is running it.
C1_ActiveCountWithinCapacity ==
  /\ activeCount >= 0
  /\ activeCount <= concurrency
  /\ Cardinality(RunningOps) <= concurrency

\* C1 witness: the queue is full, a list operation is running and one of its
\* per-entity operations waits in the pending sequence.
C1_Witness ==
  /\ activeCount = concurrency
  /\ \E p \in OpIds :
       /\ ops[p].kind = "list" /\ Running(p)
       /\ \E x \in EntitiesOf(p) : Pending(x)

\* C2: if every admitted operation completes (a running one eventually
\* fulfils or rejects: the fairness of QueueLive; none throws when invoked
\* instead of returning a promise), every task added is eventually admitted and
\* its handle eventually settles. A throw is permanent in opState, so "unless a
\* task has thrown" on the right of ~> states the premise.
C2_EveryTaskSettles ==
  \A t \in TaskIds :
     /\ Pending(t) ~> (opState[t] \in {"running", "done"} \/ ~NoTaskThrows)
     /\ (handle[t] = "unsettled") ~> (Settled(t) \/ ~NoTaskThrows)

\* C2 witness: more tasks than capacity were added, some had to wait, and all
\* of them have settled.
C2_Witness ==
  /\ NoTaskThrows
  /\ nextOp > MaxTasks /\ concurrency < MaxTasks
  /\ waited /= {}
  /\ \A t \in TaskIds : Settled(t)

\* C3: admission is FIFO in add() order: while a task is pending, no task
\* added after it has been admitted, and the operations are invoked in the
\* order they were added.
C3_FifoAdmission ==
  /\ \A t1, t2 \in OpIds :
       (t1 < t2 /\ Pending(t1)) => opState[t2] \in {"unused", "pending"}
  /\ \A i, j \in 1..Len(admitted) : i < j => admitted[i] < admitted[j]

\* C3 witness: a task that had to wait has been admitted while a task added
\* after it is still pending.
C3_Witness ==
  \E t1, t2 \in OpIds :
     /\ t1 < t2 /\ t1 \in waited
     /\ opState[t1] \in {"running", "done"}
     /\ Pending(t2)

\* C11 as claimed: whatever the outcome of an admitted operation (its promise
\* fulfils, its promise rejects, or it throws when invoked), its slot is
\* released exactly once, so activeCount counts the operations still running;
\* an operation that failed has its own handle rejected with its error; and a
\* handle is rejected only by the failure of its own operation.
C11_FailureIsolation_AsClaimed ==
  /\ activeCount = Cardinality(RunningOps)
  /\ \A t \in OpIds :
       opState[t] = "threw" => (handle[t] = "rejected" /\ handleVal[t] = <<"TaskThrew">>)
  /\ \A t \in OpIds :
       handle[t] = "rejected" => opState[t] \in {"done", "threw"}

(* ======================= properties: fetchWithCache =================== *)
Finished(c) == calls[c].st \in {"resolved", "rejected"}
\* The queued operation of call c rejected.
FetchFailed(c) == calls[c].op /= 0 /\ handle[calls[c].op] = "rejected"
\* The lookup of call c found an entry past its expiry / no entry.
FoundExpired(c) == calls[c].cached.tag = "found" /\ calls[c].cached.isExpired
FoundNothing(c) == calls[c].cached.tag = "null"
\* The store holds an entry for k that is not expired at time t.
FreshIn(st, k, t) == st[k].tag = "item" /\ ~(t > st[k].expiry)
\* Call c starts in this step / its queued fetch succeeds in this step.
Starts(c) == calls[c].st = "idle" /\ calls'[c].st /= "idle"
Succeeds(c) == calls[c].st = "queued" /\ calls'[c].path = "SUCCEEDED"
\* Number of times operation t was invoked, and of items holding it.
Invocations(adm, t) == Cardinality({i \in 1..Len(adm) : adm[i] = t})
Items(q, t) == Cardinality({i \in 1..Len(q) : q[i] = t})

\* C4: stale fallback: a call whose lookup found an expired entry and whose
\* queued fetch failed (whatever the failure) resolves with that entry's value.
C4_StaleFallback ==
  \A c \in CallIds :
     (FetchFailed(c) /\ FoundExpired(c)) =>
        /\ calls[c].st = "resolved"
        /\ calls[c].result = calls[c].cached.value
        /\ calls[c].path = "FAILED_WITH_STALE_FALLBACK"

\* C4 witness: a fetch that failed on an unparseable body has ended in a stale
\* fallback to the entry an earlier session left.
C4_Witness ==
  \E c \in CallIds :
     /\ FetchFailed(c) /\ FoundExpired(c) /\ calls[c].st = "resolved"
     /\ handleVal[calls[c].op] = <<"ParseFailure">>
     /\ calls[c].result = OldValue

\* C5: no fallback: a call whose lookup found no entry and whose queued fetch
\* failed rejects, with the error the fetcher failed with.
C5_NoFallback ==
  \A c \in CallIds :
     (FetchFailed(c) /\ FoundNothing(c)) =>
        /\ calls[c].st = "rejected"
        /\ calls[c].result = handleVal[calls[c].op]
        /\ calls[c].result \in Failures

\* C5 witness: a call without cached entry has rejected.
C5_Witness ==
  \E c \in CallIds :
     /\ FetchFailed(c) /\ FoundNothing(c) /\ calls[c].st = "rejected"
     /\ calls[c].result = <<"NotFound">>

\* C6: fresh hit: a call that starts while the store holds an unexpired entry
\* for its key, without forceRefresh, returns the cached value in the same
\* step; nothing is added to the queue, no operation is invoked, and the
\* store is unchanged.
C6_FreshHitTouchesNothing ==
  [][\A c \in CallIds :
       (Starts(c) /\ FreshIn(store, calls'[c].key, now) /\ ~calls'[c].force) =>
          /\ calls'[c].st = "resolved"
          /\ calls'[c].result = store[calls'[c].key].value
          /\ calls'[c].op = 0
          /\ UNCHANGED <<queue, activeCount, opState, admitted, nextOp, store>>]_vars

\* C6 witness: a call ended as a fresh hit on an entry at the very end of its
\* lifetime (now = expiry).
C6_Witness ==
  \E c \in CallIds :
     /\ calls[c].path = "CACHE_FRESH_HIT"
     /\ now = store[calls[c].key].expiry

\* A forced call on a fresh entry starts in this step.
ForcedStart(c) ==
  Starts(c) /\ calls'[c].force /\ FreshIn(store, calls'[c].key, now)
\* Call c was forced while its lookup found a fresh entry.
ForcedOnFresh(c) ==
  calls[c].st /= "idle" /\ calls[c].force
  /\ calls[c].cached.tag = "found" /\ ~calls[c].cached.isExpired
\* The entry set(key, data) writes at time t when the write goes through.
Written(data, t) == CacheItem(Json(data), t, t + DefaultTTL)

\* What C7 says of the queue and of a failed fetch: the forced call adds
\* exactly one operation, which is invoked exactly once, and a failure returns
\* the value cached before.
C7_OneOperation ==
  /\ \A c \in CallIds :
       ForcedStart(c) =>
          /\ calls'[c].st = "queued" /\ calls'[c].op = nextOp
          /\ nextOp' = nextOp + 1
          /\ Len(queue') + Len(admitted') = Len(queue) + Len(admitted) + 1
          /\ Items(queue', nextOp) + Invocations(admitted', nextOp) = 1
  /\ \A c \in CallIds :
       (ForcedOnFresh(c) /\ Finished(c))' =>
          /\ Invocations(admitted', calls'[c].op) = 1
          /\ Cardinality({t \in OpIds : ops'[t].kind /= "generic" /\ ops'[t].owner = c}) = 1
          /\ handle'[calls'[c].op] = "rejected" => calls'[c].result = calls'[c].cached.value

\* C7 as claimed: ... and on success the entry is overwritten.
C7_ForceRefresh_AsClaimed ==
  [][/\ C7_OneOperation
     /\ \A c \in CallIds :
          (Succeeds(c) /\ ForcedOnFresh(c)) =>
             store'[calls[c].key] = Written(calls'[c].result, now)]_vars

\* C7 (amended): with a fresh entry present, a forced call adds exactly one
\* operation to the queue and its fetcher is invoked exactly once; on success
\* the entry is overwritten if the cache write goes through; if the write
\* fails the entry is not overwritten: it stays as it was, or is removed by
\* the clean-up of expired entries if it has expired while the fetch was in
\* flight; on failure the previously cached value is returned.
C7_ForceRefresh ==
  [][/\ C7_OneOperation
     /\ \A c \in CallIds :
          (Succeeds(c) /\ ForcedOnFresh(c)) =>
             store'[calls[c].key] =
               IF calls'[c].wrote THEN Written(calls'[c].result, now)
               ELSE IF FreshIn(store, calls[c].key, now) THEN store[calls[c].key]
               ELSE Absent]_vars

\* C7 witness: a forced call on a fresh entry has fetched and replaced an
\* entry another call wrote.
C7_Witness ==
  \E c \in CallIds :
     /\ ForcedOnFresh(c) /\ calls[c].path = "SUCCEEDED" /\ calls[c].wrote
     /\ calls[c].cached.value /= Json(calls[c].result)
     /\ store[calls[c].key].value = Json(calls[c].result)

\* C8 as claimed: when the queued fetch of a call succeeds with d, the call
\* returns d and a get(key) right after it returns (d, isExpired = false).
C8_SuccessIsCached_AsClaimed ==
  [][\A c \in CallIds :
       Succeeds(c) =>
          /\ calls'[c].result = handleVal'[calls[c].op]
          /\ LET got == StorageGet(store', calls[c].key, now')
             IN got.tag = "found" /\ got.value = calls'[c].result /\ ~got.isExpired]_vars

\* C8 (amended): when the queued fetch of a call succeeds with d, the call
\* returns d; if the cache write goes through, the store then holds under key
\* the JSON round trip of d (d itself unless it holds a NaN), stored now and
\* expiring 24 hours later, whatever entry was there before, and a get(key)
\* right after returns it with isExpired = false.
C8_SuccessIsCached ==
  [][\A c \in CallIds :
       Succeeds(c) =>
          /\ calls'[c].result = handleVal'[calls[c].op]
          /\ calls'[c].wrote =>
               /\ store'[calls[c].key] = Written(calls'[c].result, now)
               /\ StorageGet(store', calls[c].key, now') =
                    Found(Json(calls'[c].result), FALSE, now)
               /\ "NaN" \notin {calls'[c].result[i] : i \in DOMAIN calls'[c].result}
                    => StorageGet(store', calls[c].key, now').value = calls'[c].result]_vars

\* C8 witness: a call whose lookup found an expired entry has fetched, and the
\* entry is fresh now.
C8_Witness ==
  \E c \in CallIds :
     /\ FoundExpired(c) /\ calls[c].path = "SUCCEEDED" /\ calls[c].wrote
     /\ FreshIn(store, calls[c].key, now)
     /\ store[calls[c].key].value = calls[c].result

(* ===================== properties: PersistentStorage ================== *)
\* The ttl the set() recorded in `last` ran with.
EffectiveTTL == IF last.given THEN last.ttl ELSE DefaultTTL

C10_GetOnlyReads ==
  [][/\ (last'.op = "set" /\ last'.ok) =>
          /\ store'[last'.key].timestamp = now
          /\ store'[last'.key].expiry = now + (IF last'.given THEN last'.ttl ELSE 86400000)
     /\ last'.op = "get" =>
          /\ store' = store
          /\ store[last'.key].tag = "item" =>
               last'.result = Found(store[last'.key].value,
                                    now > store[last'.key].expiry,
                                    store[last'.key].timestamp)]_vars

\* C10 witness: get has returned an expired entry, which is still stored.
C10_Witness ==
  /\ last.op = "get" /\ last.result.tag = "found" /\ last.result.isExpired
  /\ store[last.key].tag = "item" /\ store[last.key].value = last.result.value

(* ===================== properties: composite fetchers ================= *)
\* C16 as claimed: in every composite fetch, whatever way a sub-request fails
\* (network failure, non-2xx status, body that does not parse), the composite
\* does not fail and the value of the failed sub-request is its default.
C16_SubFailuresAreLocal_AsClaimed ==
  last.op = "composite" =>
     /\ ~last.result.failed
     /\ last.neural /= "ok" => last.result.price1 = DefaultPrice
     /\ last.llm /= "ok" => last.result.price2 = DefaultPrice
     /\ (last.fn \in WithPrice /\ last.price /= "ok") =>
          last.result.currentPrice = MockCurrentPrice

(* ========================= properties: cache keys ===================== *)
\* C20 as claimed: two orchestrator calls that differ in resource kind or in
\* parameters (entity code, days) use different cache keys.
C20_KeysDoNotAlias_AsClaimed ==
  (last.op = "keys" /\ last.a /= last.b) => last.ka /= last.kb

(* =================== properties: prefetch scheduler =================== *)
\* The calls the scheduler made when it was invoked by call c.
StartedBy(cs, c) == {d \in DOMAIN cs : cs[d].by = c}
\* A call of fetchStocks (or of a function that calls it) resolves in this
\* step: the scheduler runs in it, after the list was stored.
SchedulerRuns(c) ==
  calls'[c].fn \in ListFns /\ calls[c].out /= "fulfilled" /\ calls'[c].out = "fulfilled"
Occurrences(stocks, code) == Cardinality({i \in 1..Len(stocks) : stocks[i] = code})
EntityKeys(code) ==
  {DetailKeyOf(code), HistoryKeyOf(code, DefaultHistoryDays), PredictionKeyOf(code)}

C15_OnePerKey_AsClaimed ==
  \A d1, d2 \in DOMAIN calls :
     (d1 /= d2 /\ calls[d1].by /= 0 /\ calls[d1].by = calls[d2].by) =>
        calls[d1].key /= calls[d2].key

(* ==================== properties: public functions ==================== *)
\* The queued operation of call d, made by the scheduler, fails in this step.
PrefetchOpFails(d) ==
  /\ calls[d].by /= 0 /\ calls[d].op /= 0
  /\ handle[calls[d].op] = "unsettled" /\ handle'[calls[d].op] = "rejected"

C14_PrefetchDoesNotDelay ==
  \A c \in DOMAIN calls :
     (calls[c].fn \in ListFns /\ calls[c].st = "resolved") =>
        /\ calls[c].out = "fulfilled"
        /\ calls[c].outVal = Filter(calls[c].filtered, calls[c].result)

\* C14 witness: fetchStocks has resolved with a fetched list while none of the
\* operations its scheduler started has completed.
C14_Witness ==
  \E c \in DOMAIN calls :
     /\ calls[c].fn = "fetchStocks" /\ calls[c].path = "SUCCEEDED"
     /\ calls[c].out = "fulfilled"
     /\ Cardinality(StartedBy(calls, c)) = 3
     /\ \A d \in StartedBy(calls, c) :
          calls[d].st = "queued" /\ handle[calls[d].op] = "unsettled"

\* C17 as claimed: whatever a public fetch function rejects with, to the user
\* interface, is a standardized error {code, message, details} with the
\* function's code.
C17_RejectionsAreStandardized_AsClaimed ==
  \A u \in DOMAIN calls :
     (calls[u].by = 0 /\ calls[u].out = "rejected") => IsStandardError(calls[u].outVal)

\* C18 as claimed: a call of fetchStocks, fetchFilteredStocks or
\* refreshStocksData made while a list entry is cached, and whose list request
\* fails, resolves with the cached list (fetchFilteredStocks: with the stocks
\* of it that match).
C18_CachedListSurvivesOutage_AsClaimed ==
  \A u \in DOMAIN calls :
     (/\ calls[u].by = 0 /\ calls[u].fn \in ListFns
      /\ calls[u].before.tag = "item"
      /\ calls[u].op /= 0 /\ handle[calls[u].op] = "rejected") =>
        /\ calls[u].out = "fulfilled"
        /\ calls[u].outVal = Filter(calls[u].filtered, calls[u].before.value)

C21_ClearAllKeepsOtherKeys ==
  [][last'.op = "clearAll" =>
       /\ \A k \in DOMAIN store :
            store'[k] = IF StartsWith(k, "stock_app_cache_") THEN Absent ELSE store[k]
       /\ store'["theme"] = store["theme"]
       /\ \A k \in Keys : StorageGet(NamespaceOf(store'), k, now') = Null]_vars

\* C21 witness: clearAll has removed two cache entries while the theme was
\* stored, and the theme is still there.
C21_Witness ==
  /\ last.op = "clearAll" /\ last.removed = 2
  /\ store[ThemeKey] = Text("dark")
  /\ store[NearKey] /= Absent

(* ===================== properties: percentage deltas ================== *)
\* C22: when the current price is 0, changePercent1, changePercent2 and
\* averageChangePercent are exactly 0 whatever the two predicted prices, in
\* fetchStocks and in fetchStockDetail, and nothing is divided by zero.
C22_ZeroPriceZeroPercent ==
  (last.op = "deltas" /\ last.currentPrice = JsNum(0)) =>
     /\ last.result.changePercent1 = JsNum(0)
     /\ last.result.changePercent2 = JsNum(0)
     /\ last.result.averageChangePercent = JsNum(0)
     /\ JsNum(0) \notin last.result.divisors

\* C22 witness: fetchStockDetail has computed the deltas of a stock whose
\* current price is 0 and whose predicted prices are not: the changes are not
\* 0, the percentages are.
C22_Witness ==
  /\ last.op = "deltas" /\ last.fn = "fetchStockDetail"
  /\ last.currentPrice = JsNum(0)
  /\ last.price1 = Amount(MaxPrice) /\ last.price2 = JsNaN
  /\ last.result.change1 = Amount(MaxPrice)
  /\ last.result.changePercent1 = JsNum(0)

(* ================ properties: fetchWithCache, interleaved ============= *)
\* The queued fetch of call c fails in this step.
FetchFailsNow(c) ==
  /\ calls[c].st = "queued"
  /\ handle[calls[c].op] = "unsettled" /\ handle'[calls[c].op] = "rejected"

\* C23 as claimed: whenever the queued fetch of a call fails while the store
\* holds an entry for its key (fresh or stale), the call resolves with that
\* entry's value, also when the entry was written by another call after this
\* call's lookup.
C23_FallbackToStoredEntry_AsClaimed ==
  [][\A c \in CallIds :
       (FetchFailsNow(c) /\ store[calls[c].key].tag = "item") =>
          /\ calls'[c].st = "resolved"
          /\ calls'[c].result = store[calls[c].key].value]_vars

(* ================ properties: nested use of the queue ================= *)
\* Every slot of the queue is held by a list operation that has added its
\* per-entity operations to the same queue and awaits them, and none of those
\* has been admitted: nothing running can complete.
AwaitsEntities(o) ==
  /\ Running(o) /\ ops[o].kind = "list" /\ ops[o].size > 0
  /\ \A x \in DOMAIN ops :
       (ops[x].kind = "entity" /\ ops[x].owner = o) => Pending(x)
AllSlotsAwaitEntities ==
  /\ Cardinality({o \in DOMAIN ops : AwaitsEntities(o)}) = concurrency
  /\ activeCount = concurrency

\* C24 as claimed: with any number of overlapping fetchStocks calls that miss
\* the cache, the shared queue never reaches a state in which all its slots
\* are held by list operations waiting for per-entity operations that are
\* pending in the same queue.
C24_NoNestedDeadlock_AsClaimed == ~AllSlotsAwaitEntities

(* ================= properties: RequestQueue, admission ================ *)
\* C25: the queue is work-conserving: after every add() and after every
\* completion has been processed, the pending sequence is empty or
\* activeCount equals the capacity: no task is pending while activeCount
\* shows a free slot.
C25_WorkConserving ==
  Len(queue) = 0 \/ activeCount = concurrency

\* C25 witness: a completion has admitted a task that had to wait, the queue
\* is full again and another task is still pending.
C25_Witness ==
  \E t1, t2 \in TaskIds :
     /\ t1 \in waited /\ Running(t1)
     /\ Pending(t2)
     /\ activeCount = concurrency
     /\ \E t0 \in TaskIds : opState[t0] = "done"

\* C26: a task is in the pending sequence exactly from its add() to its
\* admission (it is there at most once, and no longer once admitted, whether
\* it is still running or has completed); it is admitted, and its operation
\* invoked, at most once over the whole run; pendingCount is the number of
\* tasks added and not yet admitted.
C26_AdmittedOnce ==
  /\ \A t \in TaskIds :
       /\ Items(queue, t) = (IF Pending(t) THEN 1 ELSE 0)
       /\ Invocations(admitted, t) = (IF opState[t] \in {"running", "done", "threw"} THEN 1 ELSE 0)
       /\ Items(queue, t) + Invocations(admitted, t) <= 1
  /\ PendingCount = Cardinality({t \in TaskIds : Pending(t)})
  /\ PendingCount + Len(admitted) = nextOp - 1

\* C26 witness: a task that had to wait is running and no longer in the
\* pending sequence, an earlier one has completed, and pendingCount counts the
\* one task still waiting.
C26_Witness ==
  \E t0, t1, t2 \in TaskIds :
     /\ opState[t0] = "done"
     /\ t1 \in waited /\ Running(t1) /\ Items(queue, t1) = 0
     /\ Pending(t2) /\ PendingCount = 1

(* ================== properties: RequestQueue, handles ================= *)
\* C27: the handle add() returned is unsettled while its task is pending or
\* running; once settled it keeps its outcome and value (it settles once);
\* and it settles only in the step in which its operation completes, with
\* the outcome and the value or error of that operation (a task that throws
\* when add() invokes it has its handle rejected with what it threw).
C27_HandleFollowsOperation ==
  [][\A t \in TaskIds :
       /\ (Pending(t) \/ Running(t))' => handle'[t] = "unsettled"
       /\ handle[t] \in Outcomes =>
            (handle'[t] = handle[t] /\ handleVal'[t] = handleVal[t])
       /\ (handle[t] = "unsettled" /\ handle'[t] \in Outcomes) =>
            /\ Running(t) /\ opState'[t] = "done"
            /\ last'.op = "settle" /\ last'.task = t
            /\ handle'[t] = last'.outcome
            /\ handleVal'[t] = last'.value
       /\ (handle[t] = "none" /\ handle'[t] \in Outcomes) =>
            /\ opState'[t] = "threw"
            /\ handle'[t] = "rejected" /\ handleVal'[t] = <<"TaskThrew">>]_vars

\* C27 witness: of two tasks that had to wait, one has completed and its
\* handle is rejected with its error, the other is running with its handle
\* unsettled, while the handle of an earlier task is fulfilled with its value.
C27_Witness ==
  \E t0, t1, t2 \in TaskIds :
     /\ handle[t0] = "fulfilled" /\ handleVal[t0] = <<"result">>
     /\ t1 \in waited /\ handle[t1] = "rejected" /\ handleVal[t1] = <<"error">>
     /\ t2 \in waited /\ Running(t2) /\ handle[t2] = "unsettled"

(* ============== properties: fetchWithCache, state machine ============= *)
TerminalPaths == {"SUCCEEDED", "FAILED_WITH_STALE_FALLBACK", "FAILED_NO_FALLBACK"}
\* The queue operations call c has added.
OpsOf(os, c) == {t \in OpIds : os[t].kind /= "generic" /\ os[t].owner = c}

\* C28: a fetchWithCache call either ends at once as CACHE_FRESH_HIT, having
\* added nothing to the queue, or becomes QUEUED once, with one queue
\* operation of its own that is invoked at most once; it is QUEUED only while
\* that operation is unsettled, and leaves QUEUED for exactly one of SUCCEEDED
\* (the fetch fulfilled), FAILED_WITH_STALE_FALLBACK (it failed, the call
\* resolves) or FAILED_NO_FALLBACK (it failed, the call rejects); a call that
\* has ended never changes again: no retry, no second queueing.
C28_CallStateMachine ==
  [][\A c \in CallIds :
       /\ Starts(c) =>
            \/ /\ calls'[c].st = "resolved" /\ calls'[c].path = "CACHE_FRESH_HIT"
               /\ calls'[c].op = 0
               /\ UNCHANGED <<queue, admitted, nextOp, ops>>
            \/ /\ calls'[c].st = "queued" /\ calls'[c].path = ""
               /\ calls'[c].op = nextOp /\ nextOp' = nextOp + 1
       /\ (calls[c].st = "queued" /\ calls'[c] /= calls[c]) =>
            /\ calls'[c].st \in {"resolved", "rejected"}
            /\ calls'[c].path \in TerminalPaths
            /\ calls'[c].op = calls[c].op
            /\ calls'[c].path = "SUCCEEDED" <=> handle'[calls[c].op] = "fulfilled"
            /\ calls'[c].path = "FAILED_NO_FALLBACK" <=> calls'[c].st = "rejected"
       /\ Finished(c) => calls'[c] = calls[c]
       /\ (calls[c].st = "queued")' => (handle[calls[c].op] = "unsettled")'
       /\ (calls[c].st /= "idle")' =>
            /\ OpsOf(ops', c) = (IF calls'[c].op = 0 THEN {} ELSE {calls'[c].op})
            /\ calls'[c].op /= 0 =>
                 Items(queue', calls'[c].op) + Invocations(admitted', calls'[c].op) = 1]_vars

\* C28 witness: one call was queued and has ended SUCCEEDED, its fetcher
\* invoked once; a later call has ended as CACHE_FRESH_HIT with no operation.
C28_Witness ==
  \E c1, c2 \in CallIds :
     /\ calls[c1].path = "SUCCEEDED" /\ Invocations(admitted, calls[c1].op) = 1
     /\ calls[c2].path = "CACHE_FRESH_HIT" /\ calls[c2].op = 0
     /\ nextOp = 2

(* ============= properties: fetchWithCache, failed fetches ============= *)
\* C29: the step in which the queued fetch of a call fails leaves the store
\* as it was: the entry of the call's key keeps value, storedAt and expiry,
\* and no other key changes. A stale entry therefore stays stale: a later
\* call for the key without forceRefresh, made while the entry is not fresh,
\* is queued again.
C29_FailedFetchKeepsStore ==
  [][/\ \A c \in CallIds : FetchFailsNow(c) => store' = store
     /\ \A c, d \in CallIds :
          (/\ Starts(c) /\ ~calls'[c].force
           /\ calls[d].path = "FAILED_WITH_STALE_FALLBACK"
           /\ calls[d].key = calls'[c].key
           /\ ~FreshIn(store, calls[d].key, now)) =>
             (calls'[c].st = "queued" /\ calls'[c].op = nextOp)]_vars

\* C29 witness: a call has ended in a stale fallback, the entry it fell back
\* to is in the store as the earlier session left it, and a second call for
\* the key has been queued.
C29_Witness ==
  \E c, d \in CallIds :
     /\ calls[d].path = "FAILED_WITH_STALE_FALLBACK"
     /\ store[calls[d].key] = CacheItem(OldValue, 0, DefaultTTL)
     /\ c /= d /\ calls[c].key = calls[d].key /\ ~calls[c].force
     /\ calls[c].st = "queued" /\ calls[c].op > calls[d].op
     /\ handle[calls[d].op] = "rejected"

(* =============== properties: no in-flight de-duplication ============== *)
\* The calls for key k whose queued operation is in flight.
InFlight(cs, k) ==
  {d \in DOMAIN cs : cs[d].st = "queued" /\ cs[d].key = k}

\* C30: no in-flight de-duplication: a fetchWithCache call that starts while
\* the store holds no fresh entry for its key adds an operation of its own to
\* the queue, also when calls for the same key are in flight: afterwards
\* there is one more call in flight for the key and each has its own
\* operation. This holds for the calls of the user interface and for the
\* calls a scheduler invocation makes while the operations of an earlier
\* invocation have not completed.
C30_NoInFlightDeduplication ==
  [][/\ \A c \in DOMAIN calls :
          (Starts(c) /\ ~FreshIn(store, calls'[c].key, now)) =>
             /\ calls'[c].st = "queued"
             /\ calls'[c].op >= nextOp /\ calls'[c].op < nextOp'
             /\ ops'[calls'[c].op].owner = c
             /\ Items(queue', calls'[c].op) + Invocations(admitted', calls'[c].op) = 1
     /\ \A c, d \in DOMAIN calls :
          (c /= d /\ calls'[c].st = "queued" /\ calls'[d].st = "queued") =>
             calls'[c].op /= calls'[d].op]_vars

\* C30 witness: two fetchStocks calls that both missed the list have each
\* fetched it with an operation of their own, and the detail operations the
\* two scheduler invocations started for the same stock are both running.
C30_Witness ==
  \E c1, c2, d1, d2 \in DOMAIN calls :
     /\ c1 /= c2
     /\ calls[c1].key = ListKey /\ calls[c1].path = "SUCCEEDED"
     /\ calls[c2].key = ListKey /\ calls[c2].path = "SUCCEEDED"
     /\ calls[c1].op /= calls[c2].op
     /\ calls[d1].by = c1 /\ calls[d2].by = c2
     /\ calls[d1].key = calls[d2].key
     /\ {d1, d2} \subseteq InFlight(calls, DetailKeyOf("2330"))
     /\ Running(calls[d1].op) /\ Running(calls[d2].op)

(* ================== properties: concurrent writers ==================== *)
\* Another call for the key of c has queued a fetch of its own.
HasRival(c) ==
  \E d \in CallIds : d /= c /\ calls[d].key = calls[c].key /\ calls[d].op /= 0

\* C31 as claimed: when several fetches for one key are in flight and succeed,
\* each completion leaves the store holding the entry written by the fetch
\* that has just completed (value, storedAt = now, expiry = now + 24 h),
\* whichever call started first.
C31_LastWriteWins_AsClaimed ==
  [][\A c \in CallIds :
       (Succeeds(c) /\ HasRival(c)) =>
          store'[calls[c].key] = Written(calls'[c].result, now)]_vars

\* C31 (amended): when several fetches for one key are in flight and succeed,
\* the store holds, after each completion, the entry written by the fetch
\* that completed last among those whose cache write went through, whole
\* (value, storedAt, expiry), whichever call started first. A fetch whose
\* write fails stores nothing: the entry of the key stays as the earlier
\* writer left it, or is removed by the clean-up of expired entries if it has
\* expired; no other key is written.
C31_LastWriteWins ==
  [][\A c \in CallIds :
       (Succeeds(c) /\ HasRival(c)) =>
          /\ store'[calls[c].key] =
               IF calls'[c].wrote THEN Written(calls'[c].result, now)
               ELSE IF store[calls[c].key].tag = "item" /\ now > store[calls[c].key].expiry
                      THEN Absent
                      ELSE store[calls[c].key]
          /\ calls'[c].wrote =>
               \A k \in Keys \ {calls[c].key} : store'[k] = store[k]]_vars

\* C31 witness: two fetches for one key have both succeeded and written; the
\* call that started first completed last, and the store holds its value, not
\* that of the call started after it.
C31_Witness ==
  \E c1, c2 \in CallIds :
     /\ c1 < c2 /\ calls[c1].key = calls[c2].key
     /\ calls[c1].path = "SUCCEEDED" /\ calls[c1].wrote
     /\ calls[c2].path = "SUCCEEDED" /\ calls[c2].wrote
     /\ Json(calls[c1].result) /= Json(calls[c2].result)
     /\ store[calls[c1].key].value = Json(calls[c1].result)
     /\ calls[c2].cached.tag = "null"

(* ===================== properties: refresh ============================ *)
\* Calls are numbered in the order they are made: c < r means call c was
\* made before call r.
\* C32 as claimed: once refreshStocksData has cleared the cache, a fetch that
\* was started before the clear writes no entry to the store.
C32_NoWriteAfterRefresh_AsClaimed ==
  [][\A r, c \in DOMAIN calls :
       (/\ calls[r].fn = "refreshStocksData"
        /\ c < r
        /\ calls[c].st = "queued") =>
          store'[calls[c].key] = store[calls[c].key]]_vars

(* ================ properties: RequestQueue, hung operations =========== *)
\* C33: a hung operation holds its slot: activeCount is decremented only in
\* a step in which a running operation completes, and a running operation
\* leaves that state only by completing (no timeout, no cancellation); while
\* capacity-many admitted operations stay running, no step admits a pending
\* task, so if they never complete none is ever admitted again.
C33_HungOperationHoldsSlot ==
  [][/\ activeCount' < activeCount =>
          \E t \in TaskIds : Running(t) /\ opState'[t] = "done"
     /\ \A t \in TaskIds : Running(t) => opState'[t] \in {"running", "done"}
     /\ (/\ Cardinality(RunningOps) = concurrency
         /\ \A t \in RunningOps : opState'[t] = "running") =>
          /\ admitted' = admitted
          /\ activeCount' = activeCount
          /\ \A t \in TaskIds : Pending(t) => opState'[t] = "pending"
          /\ \A t \in TaskIds : opState'[t] = "running" => Running(t)]_vars

\* C33 witness: capacity-many operations are running, none has completed,
\* every add() has been made and a task is pending behind them: only a
\* completion can change the queue.
C33_Witness ==
  /\ Cardinality(RunningOps) = concurrency
  /\ \A t \in TaskIds : opState[t] \in {"running", "pending"}
  /\ nextOp > MaxTasks
  /\ Len(queue) = MaxTasks - concurrency /\ Len(queue) >= 1

(* ============ properties: PersistentStorage, failed writes ============ *)
\* Entry e is expired at time t.
ExpiredAt(e, t) == e.tag = "item" /\ t > e.expiry

\* C34: a set(k, v, ttl) whose underlying write fails returns normally after
\* running clearExpired() once, and does not write again: afterwards no entry
\* of the store is expired, every entry that was not expired is as it was
\* (a fresh prior entry of k among them), and k does not hold v.
C34_FailedWriteCleansUp ==
  [][(last'.op = "set" /\ ~last'.ok) =>
       /\ StorageSetReturns(last'.ok)
       /\ \A k \in Keys :
            /\ ~ExpiredAt(store'[k], now')
            /\ ~ExpiredAt(store[k], now) => store'[k] = store[k]
            /\ ExpiredAt(store[k], now) => store'[k] = Absent
       /\ store'[last'.key] \in {store[last'.key], Absent}]_vars

\* C34 witness: a set on a key holding a fresh entry has failed: the clean-up
\* removed the expired entry of the other key, the fresh entry is still there
\* and the value of the failed set is not.
C34_Witness ==
  /\ last.op = "set" /\ ~last.ok
  /\ last.removed /= {} /\ last.key \notin last.removed
  /\ store[last.key].tag = "item" /\ ~ExpiredAt(store[last.key], now)
  /\ store[last.key].value /= Json(last.value)

(* ============ properties: PersistentStorage, clearExpired ============ *)
\* C35: clearExpired() deletes the entries of the namespace whose expiry has
\* passed (now > expiry) and nothing else: every other entry of the namespace
\* keeps its value, storedAt and expiry, and a key outside the namespace
\* keeps what it holds.
C35_ClearExpiredExact ==
  [][last'.op = "clearExpired" =>
       \A k \in LocalKeys :
         IF StartsWith(k, Prefix) /\ ExpiredAt(store[k], now)
           THEN store'[k] = Absent
           ELSE store'[k] = store[k]]_vars

\* C35 witness: a clearExpired() has removed an expired entry, has kept an
\* entry of the namespace that is just at its expiry, and has left alone an
\* expired item of another owner.
C35_Witness ==
  /\ last.op = "clearExpired"
  /\ last.removed /= {}
  /\ \E k \in Keys : store[Prefix \o k].tag = "item" /\ store[Prefix \o k].expiry = now
  /\ ExpiredAt(store[NearKey], now)

(* ============ properties: the scheduler on a warmed cache ============ *)
\* The key the scheduler probes before it calls fetch function fn for a stock.
ProbeKeyOf(fn, code) ==
  CASE fn = "fetchStockDetail" -> ProbeDetailKey(code)
    [] fn = "fetchHistoricalData" -> ProbeHistoryKey(code)
    [] fn = "fetchStockPrediction" -> ProbePredictionKey(code)

\* The scheduler invocation of call c1 has been made good: every call it
\* made has fetched its data.
AllSucceeded(c1) ==
  /\ calls[c1].fn \in ListFns /\ calls[c1].out = "fulfilled"
  /\ \A d \in StartedBy(calls, c1) : calls[d].path = "SUCCEEDED"

\* ... and has stored it, and at time `now` what those calls stored and what
\* the invocation found fresh for the stocks of the list are within their TTL.
Warmed(c1) ==
  /\ AllSucceeded(c1)
  /\ \A d \in StartedBy(calls, c1) :
       /\ calls[d].wrote
       /\ store[calls[d].key].tag = "item"
       /\ now <= store[calls[d].key].timestamp + DefaultTTL
  /\ \A i \in 1..Len(calls[c1].result) :
       \A k \in EntityKeys(calls[c1].result[i]) \ {calls[d].key : d \in StartedBy(calls, c1)} :
         HasFresh(store, k, now)

C37_PrefetchOncePerResolve ==
  \A c \in OverlapCallIds :
    calls[c].st /= "idle" =>
      /\ (calls[c].fn \in ListFns /\ calls[c].out = "fulfilled") =>
           /\ calls[c].prefetched = 1
           /\ calls[c].path \in {"CACHE_FRESH_HIT", "SUCCEEDED", "FAILED_WITH_STALE_FALLBACK"}
      /\ (calls[c].fn \in ListFns /\ calls[c].out /= "fulfilled") =>
           /\ calls[c].prefetched = 0
           /\ StartedBy(calls, c) = {}
      /\ calls[c].fn \notin ListFns => calls[c].prefetched = 0

\* C37 witness: three calls have resolved, one with the stale list after its
\* fetch failed, one with the list it fetched and one with the fresh entry the
\* second left; each has invoked the scheduler once.
C37_Witness ==
  \E c1, c2, c3 \in OverlapCallIds :
    /\ calls[c1].path = "FAILED_WITH_STALE_FALLBACK" /\ calls[c1].prefetched = 1
    /\ calls[c2].path = "SUCCEEDED" /\ calls[c2].fn \in ListFns /\ calls[c2].prefetched = 1
    /\ calls[c3].path = "CACHE_FRESH_HIT" /\ calls[c3].fn \in ListFns
    /\ calls[c3].prefetched = 1
    /\ \A c \in {c1, c2, c3} : calls[c].out = "fulfilled"

(* ============== properties: the records of the list ================== *)
\* C38: the list a successful list fetch returns has one element per entity
\* the backend returned, in the backend's order: the element of an entity
\* whose queued composition failed is its base record with the mock price and
\* zero predictions, and the element of any other entity is the record its
\* composition returned.
C38_OneRecordPerEntity ==
  \A c \in CallIds :
    (calls[c].key = ListKey /\ calls[c].path = "SUCCEEDED") =>
      LET p == calls[c].op
          data == ops[p].data
          sibs == EntitiesOf(p)
          first == CHOOSE x \in sibs : \A y \in sibs : x <= y
      IN /\ Len(calls[c].result) = Len(data)
         /\ \A i \in 1..Len(data) :
              /\ StartsWith(calls[c].result[i], data[i] \o "|")
              /\ handle[first + i - 1] = "rejected" =>
                   calls[c].result[i] = data[i] \o "|10|0|0"
              /\ handle[first + i - 1] = "fulfilled" =>
                   calls[c].result[i] = handleVal[first + i - 1][1]

\* C38 witness: a list of two different entities has been fetched; the
\* composition of the first failed, that of the second returned its prices.
C38_Witness ==
  \E c \in CallIds :
    /\ calls[c].key = ListKey /\ calls[c].path = "SUCCEEDED"
    /\ Len(calls[c].result) = 2
    /\ calls[c].result[1] = "2330|10|0|0"
    /\ calls[c].result[2] = "2317|close|neural|llm"
    /\ \E x \in OpIds : ops[x].kind = "entity" /\ handle[x] = "rejected"

(* ============ properties: independence of the sub-values ============= *)
\* C39 as claimed: in fetchStocks and in fetchStockDetail a sub-request that
\* failed (request or body) leaves its own sub-value at the default, and each
\* sub-request that succeeded contributes the value it fetched.
C39_SubValuesIndependent_AsClaimed ==
  (last.op = "composite" /\ last.fn \in WithPrice) =>
     /\ ~last.result.failed
     /\ last.result.price1 = (IF last.neural = "ok" THEN "neural" ELSE DefaultPrice)
     /\ last.result.price2 = (IF last.llm = "ok" THEN "llm" ELSE DefaultPrice)
     /\ last.result.currentPrice = (IF last.price = "ok" THEN "close" ELSE MockCurrentPrice)

(* ================ properties: fetchFilteredStocks ===================== *)
\* A record matches the filters: one of its two percentages is at or above
\* the up-trend threshold while that switch is on, or at or below the
\* down-trend threshold while that switch is on.
MatchesFilters(filters, stock) ==
  \/ /\ filters.upTrendEnabled
     /\ \E p \in {stock.changePercent1, stock.changePercent2} :
          JsGte(p, filters.upTrendThreshold)
  \/ /\ filters.downTrendEnabled
     /\ \E p \in {stock.changePercent1, stock.changePercent2} :
          JsLte(p, filters.downTrendThreshold)

====
